---- MODULE Spec2Model ----
(***************************************************************************)
(* rpcproxy: a caching, failover reverse proxy for JSON-RPC over HTTP.     *)
(*                                                                         *)
(* The model follows the request dispatcher (handler/rpc.rs), the cache    *)
(* store with its single-flight registry (cache/store.rs), the cache       *)
(* policy (cache/policy.rs), the backend record (upstream/backend.rs) and  *)
(* the upstream manager with its health sweep (upstream/manager.rs), the   *)
(* gate of the RPC routes and the status endpoints (handler/rpc.rs,        *)
(* handler/status.rs, handler/auth.rs).                                    *)
(*                                                                         *)
(* Every handler is an async task.  A handler's position (pc) is the       *)
(* .await it is suspended at; one action completes that await and runs the *)
(* code up to the next one.  A task may be dropped at any await (the       *)
(* client disconnects): its locals, among them the broadcast sender and    *)
(* receiver it holds, are dropped with it.                                 *)
(***************************************************************************)
EXTENDS Integers, Sequences, FiniteSets, TLC

(***************************************************************************)
(* Bounds of the model.                                                    *)
(***************************************************************************)
\* handler tasks of the full system
MaxHandlers == 2
\* handler tasks of the upstream-focused system
MaxCallers == 2
\* request ids are 1..MaxId
MaxId == 2
\* health sweeps of the upstream-focused system
MaxUpSweeps == 2
\* health sweeps of the system that starts with a Down backend
MaxRecSweeps == 1
\* the highest head a probe reports
MaxHead == 12
\* clock ticks
MaxTicks == 1
\* callers of send_request beside the status endpoints
MaxStatusCallers == 1
\* requests in one batch
MaxBatch == 2
\* clock ticks of the store under direct calls
MaxStoreTicks == 3

(***************************************************************************)
(* Program constants.                                                      *)
(***************************************************************************)
IMMUTABLE_TTL_SECS == 3600
DefaultTtlMs == 2000
DownThreshold == 3
StaleBlocks == 10

\* Option<T>: None is the empty sequence, Some(x) the one-element sequence.
None == << >>
Some(x) == << x >>
IsSome(o) == o # << >>
Unwrap(o) == o[1]

\* serde_json::Value::Null as an id
NullId == 0
Ids == 1..MaxId

(***************************************************************************)
(* jsonrpc/request.rs, jsonrpc/response.rs                                 *)
(***************************************************************************)
NEVER_CACHE_METHODS ==
    { "eth_sendRawTransaction", "eth_sendTransaction", "personal_sign",
      "personal_unlockAccount", "personal_sendTransaction", "admin_addPeer",
      "admin_removePeer", "miner_start", "miner_stop", "debug_traceTransaction" }

IMMUTABLE_METHODS ==
    { "eth_getBlockByHash", "eth_getTransactionByHash", "eth_getTransactionReceipt",
      "eth_getTransactionByBlockHashAndIndex", "eth_getTransactionByBlockNumberAndIndex",
      "eth_getUncleByBlockHashAndIndex", "eth_getBlockTransactionCountByHash",
      "eth_getUncleCountByBlockHash", "net_version", "eth_chainId",
      "web3_clientVersion" }

\* serde_json::Value, as far as requests' params go: null, a number, a
\* string, an array of values, or an object (its members in key order, as
\* serde_json's map keeps them).  A string is the sequence of its characters
\* and a number the sequence of its digits.
JNull == [kind |-> "null", text |-> << >>, items |-> << >>, members |-> << >>]
JNumber(digits) == [kind |-> "number", text |-> digits, items |-> << >>, members |-> << >>]
JString(chars) == [kind |-> "string", text |-> chars, items |-> << >>, members |-> << >>]
JArray(values) == [kind |-> "array", text |-> << >>, items |-> values, members |-> << >>]
\* members: a sequence of << key, value >>
JObject(members) == [kind |-> "object", text |-> << >>, items |-> << >>, members |-> members]

\* Value::as_array, Value::as_str, Value::get(key), slice::first
as_array(v) == IF v.kind = "array" THEN Some(v.items) ELSE None
as_str(v) == IF v.kind = "string" THEN Some(v.text) ELSE None
get(v, key) ==
    IF v.kind = "object" /\ \E i \in DOMAIN v.members : v.members[i][1] = key
    THEN Some((CHOOSE m \in { v.members[i] : i \in DOMAIN v.members } : m[1] = key)[2])
    ELSE None
first(a) == IF a = << >> THEN None ELSE Some(a[1])

\* str::starts_with
starts_with(s, prefix) ==
    Len(s) >= Len(prefix) /\ SubSeq(s, 1, Len(prefix)) = prefix

\* A request body without its id: jsonrpc, method and params.
Bodies ==
    { [jsonrpc |-> "2.0", method |-> "eth_blockNumber", params |-> JArray(<< >>)],
      [jsonrpc |-> "2.0", method |-> "eth_chainId", params |-> JArray(<< >>)],
      [jsonrpc |-> "2.0", method |-> "eth_sendRawTransaction",
       params |-> JArray(<< JString(<< "0", "x", "f", "8" >>) >>)],
      [jsonrpc |-> "1.0", method |-> "eth_blockNumber", params |-> JArray(<< >>)],
      [jsonrpc |-> "2.0", method |-> "", params |-> JArray(<< >>)] }

MkRequest(b, id) ==
    [jsonrpc |-> b.jsonrpc, method |-> b.method, params |-> b.params, id |-> id]

NoRequest == [jsonrpc |-> "", method |-> "", params |-> JNull, id |-> NullId]

\* the text of a JSON string: quotes and backslashes are escaped
RECURSIVE Escaped(_)
Escaped(chars) ==
    IF chars = << >> THEN ""
    ELSE (IF Head(chars) = "\"" THEN "\\\""
          ELSE IF Head(chars) = "\\" THEN "\\\\"
          ELSE Head(chars)) \o Escaped(Tail(chars))

RECURSIVE Digits(_)
Digits(chars) == IF chars = << >> THEN "" ELSE Head(chars) \o Digits(Tail(chars))

\* texts joined by commas
RECURSIVE JoinStrings(_)
JoinStrings(s) ==
    IF s = << >> THEN ""
    ELSE IF Len(s) = 1 THEN s[1]
    ELSE s[1] \o "," \o JoinStrings(Tail(s))

\* serde_json::to_string of a value
RECURSIVE to_string(_)
to_string(v) ==
    IF v.kind = "null" THEN "null"
    ELSE IF v.kind = "number" THEN Digits(v.text)
    ELSE IF v.kind = "string" THEN "\"" \o Escaped(v.text) \o "\""
    ELSE IF v.kind = "array"
    THEN "[" \o JoinStrings([i \in DOMAIN v.items |-> to_string(v.items[i])]) \o "]"
    ELSE "{" \o JoinStrings([i \in DOMAIN v.members |->
                    "\"" \o v.members[i][1] \o "\":" \o to_string(v.members[i][2])])
             \o "}"

\* normalize_value walks the value and assigns nothing
RECURSIVE normalize_value(_)
normalize_value(v) ==
    IF v.kind = "object"
    THEN [v EXCEPT !.members = [i \in DOMAIN v.members |->
                                    << v.members[i][1], normalize_value(v.members[i][2]) >>]]
    ELSE IF v.kind = "array"
    THEN [v EXCEPT !.items = [i \in DOMAIN v.items |-> normalize_value(v.items[i])]]
    ELSE v

\* a fingerprint made of the method alone
cache_key_method_only(request) == request.method \o ":"

cache_key(request) ==
    request.method \o ":" \o to_string(normalize_value(request.params))

\* is_valid without the test of the method
is_valid_any_method(request) == request.jsonrpc = "2.0"

is_valid(request) == request.jsonrpc = "2.0" /\ request.method # ""

\* JsonRpcResponse: result and error are Options
Response(result, error, id) == [result |-> result, error |-> error, id |-> id]
ErrorResponse(id, code) == Response(None, Some(code), id)
invalid_request(id) == ErrorResponse(id, -32600)
parse_error == ErrorResponse(NullId, -32700)

\* an internal error that answers with a null id
internal_error_null_id(id) == ErrorResponse(NullId, -32603)

internal_error(id) == ErrorResponse(id, -32603)
NoResponse == Response(None, None, NullId)

\* The results a backend can give for a request: heads for eth_blockNumber,
\* chain ids for eth_chainId, transaction hashes for anything else, so that
\* the answer to one request is told from the answer to another.
UpstreamResults(request) ==
    IF request.method = "eth_blockNumber" THEN { "0x1", "0x2" }
    ELSE IF request.method = "eth_chainId" THEN { "0xa", "0xb" }
    ELSE { "0xf1", "0xf2" }

\* What a backend answers a request with over HTTP 2xx: a result, a JSON-RPC
\* error, or neither field; the id it echoes is its own business.
UpstreamBodies(request) ==
    { Response(Some(r), None, i) : r \in UpstreamResults(request), i \in {NullId} }
        \cup { Response(None, Some(-32000), NullId), Response(None, None, NullId) }

(***************************************************************************)
(* cache/policy.rs                                                         *)
(***************************************************************************)
\* a policy that has lost its never-cache list
should_cache_all(method) == TRUE

should_cache(method) == method \notin NEVER_CACHE_METHODS

\* ttl_for_request that takes any first parameter of eth_getBlockByNumber
\* for a block number
ttl_for_request_any_block(request, default_ttl) ==
    IF request.method \in IMMUTABLE_METHODS THEN IMMUTABLE_TTL_SECS * 1000
    ELSE IF /\ request.method = "eth_getBlockByNumber"
            /\ IsSome(as_array(request.params))
            /\ IsSome(first(Unwrap(as_array(request.params))))
         THEN IMMUTABLE_TTL_SECS * 1000
    ELSE default_ttl

\* Durations are in ms.
ttl_for_request(request, default_ttl) ==
    LET arr == as_array(request.params)
        block_param == IF IsSome(arr) THEN first(Unwrap(arr)) ELSE None
    IN IF request.method \in IMMUTABLE_METHODS THEN IMMUTABLE_TTL_SECS * 1000
       ELSE IF /\ request.method = "eth_getBlockByNumber"
               /\ IsSome(block_param)
               /\ IsSome(as_str(Unwrap(block_param)))
               /\ starts_with(Unwrap(as_str(Unwrap(block_param))), << "0", "x" >>)
            THEN IMMUTABLE_TTL_SECS * 1000
       ELSE IF /\ request.method = "eth_getLogs"
               /\ IsSome(block_param)
               /\ IsSome(get(Unwrap(block_param), "blockHash"))
            THEN IMMUTABLE_TTL_SECS * 1000
       ELSE default_ttl

(***************************************************************************)
(* upstream/backend.rs                                                     *)
(***************************************************************************)
NewBackendStatus ==
    [ state |-> "Healthy", consecutive_errors |-> 0, consecutive_successes |-> 0,
      last_error_at |-> FALSE, last_success_at |-> FALSE, latest_block |-> None,
      avg_latency_ms |-> 0, total_requests |-> 0, total_errors |-> 0 ]

\* record_success that leaves the state as it is
record_success_keep_state(b, latency_ms) ==
    [ b EXCEPT !.total_requests = @ + 1,
               !.consecutive_errors = 0,
               !.consecutive_successes = @ + 1,
               !.last_success_at = TRUE,
               !.avg_latency_ms = IF @ = 0 THEN latency_ms * 1000
                                  ELSE (@ * 8 + latency_ms * 1000 * 2) \div 10 ]

\* record_success that does not count the request
record_success_uncounted(b, latency_ms) ==
    [ b EXCEPT !.consecutive_errors = 0,
               !.consecutive_successes = @ + 1,
               !.last_success_at = TRUE,
               !.state = "Healthy",
               !.avg_latency_ms = IF @ = 0 THEN latency_ms * 1000
                                  ELSE (@ * 8 + latency_ms * 1000 * 2) \div 10 ]

\* record_success that gives a backend without a head the head 0
record_success_sets_block(b, latency_ms) ==
    [ b EXCEPT !.total_requests = @ + 1,
               !.consecutive_errors = 0,
               !.consecutive_successes = @ + 1,
               !.last_success_at = TRUE,
               !.state = "Healthy",
               !.latest_block = IF IsSome(@) THEN @ ELSE Some(0),
               !.avg_latency_ms = IF @ = 0 THEN latency_ms * 1000
                                  ELSE (@ * 8 + latency_ms * 1000 * 2) \div 10 ]

\* avg_latency_ms is kept in thousandths of a millisecond
record_success(b, latency_ms) ==
    [ b EXCEPT !.total_requests = @ + 1,
               !.consecutive_errors = 0,
               !.consecutive_successes = @ + 1,
               !.last_success_at = TRUE,
               !.state = "Healthy",
               !.avg_latency_ms = IF @ = 0 THEN latency_ms * 1000
                                  ELSE (@ * 8 + latency_ms * 1000 * 2) \div 10 ]

\* record_error that takes a backend Down one error late
record_error_late(b) ==
    LET e == b.consecutive_errors + 1 IN
    [ b EXCEPT !.total_requests = @ + 1,
               !.total_errors = @ + 1,
               !.consecutive_successes = 0,
               !.consecutive_errors = e,
               !.last_error_at = TRUE,
               !.state = IF e > DownThreshold THEN "Down" ELSE "Degraded" ]

\* record_error that does not count the request
record_error_uncounted(b) ==
    LET e == b.consecutive_errors + 1 IN
    [ b EXCEPT !.total_errors = @ + 1,
               !.consecutive_successes = 0,
               !.consecutive_errors = e,
               !.last_error_at = TRUE,
               !.state = IF e >= DownThreshold THEN "Down" ELSE "Degraded" ]

\* record_error that leaves the streak of successes as it is
record_error_keep_streak(b) ==
    LET e == b.consecutive_errors + 1 IN
    [ b EXCEPT !.total_requests = @ + 1,
               !.total_errors = @ + 1,
               !.consecutive_errors = e,
               !.last_error_at = TRUE,
               !.state = IF e >= DownThreshold THEN "Down" ELSE "Degraded" ]

record_error(b) ==
    LET e == b.consecutive_errors + 1 IN
    [ b EXCEPT !.total_requests = @ + 1,
               !.total_errors = @ + 1,
               !.consecutive_successes = 0,
               !.consecutive_errors = e,
               !.last_error_at = TRUE,
               !.state = IF e >= DownThreshold THEN "Down" ELSE "Degraded" ]

(***************************************************************************)
(* cache/store.rs: the TTL store and the in-flight registry.  A store      *)
(* entry keeps the response, its TTL, the instant of the insert that put   *)
(* the value there and the instant the entry expires at;                   *)
(* the registry maps a key to the broadcast channel whose sender it holds  *)
(* (a channel is named by the handler that created it, 0 is no entry).     *)
(***************************************************************************)
AllKeys == { cache_key(b) : b \in Bodies }

\* PerEntryExpiry.expire_after_create: a created entry lives for its own ttl
Live(entry, t) == t < entry.expires_at

\* a lookup that never finds anything
cache_get_miss(st, key, t) == None

cache_get(st, key, t) ==
    IF IsSome(st[key]) /\ Live(Unwrap(st[key]), t)
    THEN Some(Unwrap(st[key]).response)
    ELSE None

\* PerEntryExpiry overrides expire_after_create only: replacing the value of
\* a live entry keeps the expiration the entry already has
cache_insert(st, key, response, ttl, t) ==
    [st EXCEPT ![key] =
        Some([ response |-> response, ttl |-> ttl, inserted_at |-> t,
               expires_at |-> IF IsSome(cache_get(st, key, t))
                              THEN Unwrap(st[key]).expires_at
                              ELSE t + ttl ])]

\* a registry that hands out any occupied slot when the key has none
subscribe_inflight_any(inf, key) ==
    IF inf[key] # 0 THEN inf[key]
    ELSE IF \E k \in DOMAIN inf : inf[k] # 0
    THEN inf[CHOOSE k \in DOMAIN inf : inf[k] # 0]
    ELSE 0

subscribe_inflight(inf, key) == inf[key]

register_inflight(inf, key, ch) == [inf EXCEPT ![key] = ch]

\* remove_inflight that leaves the slot in the registry
remove_inflight_kept(inf, key) == inf

remove_inflight(inf, key) == [inf EXCEPT ![key] = 0]

(***************************************************************************)
(* State.                                                                  *)
(***************************************************************************)
VARIABLES
    pc,            \* handler -> the await it is suspended at
    req,           \* handler -> its request
    sr,            \* handler -> index of the backend send_request is at
    tx,            \* handler -> it holds the sender of its own channel
    rx,            \* handler -> the channel it holds a receiver of (0: none)
    inbox,         \* handler -> the value its receiver has not yet taken
    resp,          \* handler -> the response it holds or has returned
    src,           \* handler -> where that response came from
    ops,           \* handler -> the cache and upstream operations it has called
    liveUntil,     \* handler -> expiry of the live entry its key had when it began
    tried,         \* handler -> what its send_request did with each backend, in order
    store,         \* key -> Option<CacheEntry>
    inflight,      \* key -> channel registered (0: none)
    everInserted,  \* keys ever inserted into the store
    status,        \* backend -> BackendStatus
    sweep,         \* the health sweep in progress
    sweeps,        \* health sweeps started
    endStale,      \* backends Healthy and stale when the last sweep ended
    ticker,        \* the interval of the health checker
    health_notify, \* the reactive signal holds a permit
    now,           \* the clock, in ms
    token,         \* AppState.token: Option<String>
    http,          \* handler -> the POST its connection carries
    endpoint,      \* the GET /health or GET /readiness in progress
    call           \* the last direct call of a library function

hvars == << pc, req, sr, tx, rx, inbox, resp, src, ops, liveUntil, tried >>
cvars == << store, inflight, everInserted >>
uvars == << status, sweep, sweeps, endStale, ticker, health_notify >>
evars == << token, http, endpoint, call >>
vars == << pc, req, sr, tx, rx, inbox, resp, src, ops, liveUntil, tried,
           store, inflight, everInserted, status, sweep, sweeps, endStale,
           ticker, health_notify, now, token, http, endpoint, call >>

Handlers == DOMAIN pc
Backends == DOMAIN status
NumBackends == Len(status)

\* measured latencies of user requests, in ms
LatencySamples == { 40 }

\* tasks suspended at one of these can be dropped
AwaitPoints ==
    { "get", "subscribe", "recv", "register", "sr_read", "sr_fwd", "lr_fwd",
      "insert", "remove" }

\* the broadcast channel c has no sender left: its creator dropped its own and
\* the registry holds no clone
Closed(c) == ~tx[c] /\ \A k \in AllKeys : inflight[k] # c

\* recovered: the backends that were Down when their probe of this sweep succeeded
IdleSweep == [pc |-> "idle", i |-> 0, best |-> None, recovered |-> {}]

\* no POST on the connection yet
NoExchange ==
    [st |-> "none", path |-> "", batch |-> FALSE, requests |-> << >>,
     responses |-> << >>, via |-> << >>, status |-> 0]

\* no GET in progress
NoEndpoint ==
    [kind |-> "none", pc |-> "idle", i |-> 0, bearer |-> None, seen |-> << >>,
     code |-> 0]

NoCall == [op |-> "none"]

\* the state after construction with nh handler tasks, the backend records
\* st and the token tk
InitCfg(nh, st, tk) ==
    /\ pc = [h \in 1..nh |-> "idle"]
    /\ req = [h \in 1..nh |-> NoRequest]
    /\ sr = [h \in 1..nh |-> 0]
    /\ tx = [h \in 1..nh |-> FALSE]
    /\ rx = [h \in 1..nh |-> 0]
    /\ inbox = [h \in 1..nh |-> None]
    /\ resp = [h \in 1..nh |-> NoResponse]
    /\ src = [h \in 1..nh |-> "none"]
    /\ ops = [h \in 1..nh |-> {}]
    /\ liveUntil = [h \in 1..nh |-> 0]
    /\ tried = [h \in 1..nh |-> << >>]
    /\ store = [k \in AllKeys |-> None]
    /\ inflight = [k \in AllKeys |-> 0]
    /\ everInserted = {}
    /\ status = st
    /\ sweep = IdleSweep
    /\ sweeps = 0
    /\ endStale = {}
    /\ ticker = "first"
    /\ health_notify = FALSE
    /\ now = 0
    /\ token = tk
    /\ http = [h \in 1..nh |-> NoExchange]
    /\ endpoint = NoEndpoint

\* no token configured, no library call made
InitFrom(nh, st) == InitCfg(nh, st, None) /\ call = NoCall

\* the state after construction, with nh handler tasks and nb backends
InitWith(nh, nb) == InitFrom(nh, [b \in 1..nb |-> NewBackendStatus])

(***************************************************************************)
(* handler/rpc.rs: handle_single_request                                   *)
(***************************************************************************)
\* lines 85-92: validation, cache key and policy, up to the first await
Begin(h, pool, ids) ==
    /\ pc[h] = "idle"
    /\ \E b \in pool, id \in ids :
        LET r == MkRequest(b, id) IN
        /\ req' = [req EXCEPT ![h] = r]
        /\ IF ~is_valid(r)
           THEN /\ pc' = [pc EXCEPT ![h] = "done"]
                /\ resp' = [resp EXCEPT ![h] = invalid_request(r.id)]
                /\ src' = [src EXCEPT ![h] = "invalid"]
                /\ UNCHANGED << sr, ops, liveUntil >>
           ELSE IF should_cache(r.method)
           THEN /\ pc' = [pc EXCEPT ![h] = "get"]
                /\ liveUntil' = [liveUntil EXCEPT ![h] =
                       IF IsSome(store[cache_key(r)])
                       THEN Unwrap(store[cache_key(r)]).expires_at
                       ELSE 0]
                /\ UNCHANGED << sr, ops, resp, src >>
           ELSE /\ pc' = [pc EXCEPT ![h] = "sr_read"]
                /\ sr' = [sr EXCEPT ![h] = 1]
                /\ ops' = [ops EXCEPT ![h] = @ \cup {"send_request"}]
                /\ UNCHANGED << resp, src, liveUntil >>
    /\ UNCHANGED << tried, tx, rx, inbox, cvars, uvars, now, evars >>

\* the store lookup without the id overwrite of line 98
Get_stored_id(h) ==
    /\ pc[h] = "get"
    /\ ops' = [ops EXCEPT ![h] = @ \cup {"get"}]
    /\ LET cached == cache_get(store, cache_key(req[h]), now) IN
       IF IsSome(cached)
       THEN /\ resp' = [resp EXCEPT ![h] = Unwrap(cached)]
            /\ src' = [src EXCEPT ![h] = "cache"]
            /\ pc' = [pc EXCEPT ![h] = "done"]
       ELSE /\ pc' = [pc EXCEPT ![h] = "subscribe"]
            /\ UNCHANGED << resp, src >>
    /\ UNCHANGED << tried, req, sr, tx, rx, inbox, liveUntil, cvars, uvars, now, evars >>

\* lines 95-100: the store lookup
Get(h) ==
    /\ pc[h] = "get"
    /\ ops' = [ops EXCEPT ![h] = @ \cup {"get"}]
    /\ LET cached == cache_get(store, cache_key(req[h]), now) IN
       IF IsSome(cached)
       THEN /\ resp' = [resp EXCEPT ![h] = [Unwrap(cached) EXCEPT !.id = req[h].id]]
            /\ src' = [src EXCEPT ![h] = "cache"]
            /\ pc' = [pc EXCEPT ![h] = "done"]
       ELSE /\ pc' = [pc EXCEPT ![h] = "subscribe"]
            /\ UNCHANGED << resp, src >>
    /\ UNCHANGED << tried, req, sr, tx, rx, inbox, liveUntil, cvars, uvars, now, evars >>

\* line 103: subscribe to the slot of the key, if there is one
Subscribe(h) ==
    /\ pc[h] = "subscribe"
    /\ LET c == subscribe_inflight(inflight, cache_key(req[h])) IN
       IF c # 0
       THEN /\ rx' = [rx EXCEPT ![h] = c]
            /\ pc' = [pc EXCEPT ![h] = "recv"]
            /\ ops' = [ops EXCEPT ![h] = @ \cup {"subscribe_inflight", "recv"}]
       ELSE /\ pc' = [pc EXCEPT ![h] = "register"]
            /\ ops' = [ops EXCEPT ![h] = @ \cup {"subscribe_inflight"}]
            /\ UNCHANGED rx
    /\ UNCHANGED << tried, req, sr, tx, inbox, resp, src, liveUntil, cvars, uvars, now, evars >>

\* lines 104-109: rx.recv() yields the value sent after the subscription, or
\* an error once every sender is gone
Recv(h) ==
    /\ pc[h] = "recv"
    /\ \/ /\ IsSome(inbox[h])
          /\ resp' = [resp EXCEPT ![h] = [Unwrap(inbox[h]) EXCEPT !.id = req[h].id]]
          /\ src' = [src EXCEPT ![h] = "inflight"]
          /\ pc' = [pc EXCEPT ![h] = "done"]
       \/ /\ ~IsSome(inbox[h])
          /\ Closed(rx[h])
          /\ pc' = [pc EXCEPT ![h] = "register"]
          /\ UNCHANGED << resp, src >>
    /\ rx' = [rx EXCEPT ![h] = 0]
    /\ inbox' = [inbox EXCEPT ![h] = None]
    /\ UNCHANGED << tried, req, sr, tx, ops, liveUntil, cvars, uvars, now, evars >>

\* lines 113-120: register the slot (replacing whatever the key held) and
\* enter send_request
Register(h) ==
    /\ pc[h] = "register"
    /\ inflight' = register_inflight(inflight, cache_key(req[h]), h)
    /\ tx' = [tx EXCEPT ![h] = TRUE]
    /\ ops' = [ops EXCEPT ![h] = @ \cup {"register_inflight", "send_request"}]
    /\ pc' = [pc EXCEPT ![h] = "sr_read"]
    /\ sr' = [sr EXCEPT ![h] = 1]
    /\ UNCHANGED << tried, req, rx, inbox, resp, src, liveUntil, store, everInserted, uvars, now, evars >>

\* Deliver without the test of the error field of line 126
Deliver_cache_errors(h, result) ==
    IF IsSome(result)
    THEN LET response == [Unwrap(result) EXCEPT !.id = req[h].id] IN
         /\ resp' = [resp EXCEPT ![h] = response]
         /\ src' = [src EXCEPT ![h] = "upstream"]
         /\ pc' = [pc EXCEPT ![h] =
                IF should_cache(req[h].method) THEN "insert"
                ELSE IF tx[h] THEN "remove"
                ELSE "done"]
    ELSE /\ resp' = [resp EXCEPT ![h] = internal_error(req[h].id)]
         /\ src' = [src EXCEPT ![h] = "failed"]
         /\ pc' = [pc EXCEPT ![h] = IF tx[h] THEN "remove" ELSE "done"]

\* Deliver without the should_cache test of line 126
Deliver_cache_all(h, result) ==
    IF IsSome(result)
    THEN LET response == [Unwrap(result) EXCEPT !.id = req[h].id] IN
         /\ resp' = [resp EXCEPT ![h] = response]
         /\ src' = [src EXCEPT ![h] = "upstream"]
         /\ pc' = [pc EXCEPT ![h] =
                IF ~IsSome(response.error) THEN "insert"
                ELSE IF tx[h] THEN "remove"
                ELSE "done"]
    ELSE /\ resp' = [resp EXCEPT ![h] = internal_error(req[h].id)]
         /\ src' = [src EXCEPT ![h] = "failed"]
         /\ pc' = [pc EXCEPT ![h] = IF tx[h] THEN "remove" ELSE "done"]

\* Deliver that caches only a response that carries a result
Deliver_require_result(h, result) ==
    IF IsSome(result)
    THEN LET response == [Unwrap(result) EXCEPT !.id = req[h].id] IN
         /\ resp' = [resp EXCEPT ![h] = response]
         /\ src' = [src EXCEPT ![h] = "upstream"]
         /\ pc' = [pc EXCEPT ![h] =
                IF should_cache(req[h].method) /\ ~IsSome(response.error)
                                               /\ IsSome(response.result) THEN "insert"
                ELSE IF tx[h] THEN "remove"
                ELSE "done"]
    ELSE /\ resp' = [resp EXCEPT ![h] = internal_error(req[h].id)]
         /\ src' = [src EXCEPT ![h] = "failed"]
         /\ pc' = [pc EXCEPT ![h] = IF tx[h] THEN "remove" ELSE "done"]

\* lines 122-151, up to the next await: what the handler does with the result
\* of send_request (Some(body) for Ok, None for AllUpstreamsFailed)
Deliver(h, result) ==
    IF IsSome(result)
    THEN LET response == [Unwrap(result) EXCEPT !.id = req[h].id] IN
         /\ resp' = [resp EXCEPT ![h] = response]
         /\ src' = [src EXCEPT ![h] = "upstream"]
         /\ pc' = [pc EXCEPT ![h] =
                IF should_cache(req[h].method) /\ ~IsSome(response.error) THEN "insert"
                ELSE IF tx[h] THEN "remove"
                ELSE "done"]
    ELSE /\ resp' = [resp EXCEPT ![h] = internal_error(req[h].id)]
         /\ src' = [src EXCEPT ![h] = "failed"]
         /\ pc' = [pc EXCEPT ![h] = IF tx[h] THEN "remove" ELSE "done"]

\* lines 127-136: insert, publish to the waiters, drop the sender
Insert(h) ==
    /\ pc[h] = "insert"
    /\ LET key == cache_key(req[h])
           ttl == ttl_for_request(req[h], DefaultTtlMs)
       IN /\ store' = cache_insert(store, key, resp[h], ttl, now)
          /\ everInserted' = everInserted \cup {key}
    /\ inbox' = [g \in Handlers |->
                    IF tx[h] /\ rx[g] = h THEN Some(resp[h]) ELSE inbox[g]]
    /\ tx' = [tx EXCEPT ![h] = FALSE]
    /\ pc' = [pc EXCEPT ![h] = "remove"]
    /\ UNCHANGED << tried, req, sr, rx, resp, src, ops, liveUntil, inflight, uvars, now, evars >>

\* lines 137, 139, 146: remove the slot of the key and return
Remove(h) ==
    /\ pc[h] = "remove"
    /\ inflight' = remove_inflight(inflight, cache_key(req[h]))
    /\ tx' = [tx EXCEPT ![h] = FALSE]
    /\ pc' = [pc EXCEPT ![h] = "done"]
    /\ UNCHANGED << tried, req, sr, rx, inbox, resp, src, ops, liveUntil, store, everInserted,
                    uvars, now, evars >>

\* The task is dropped at an await: its sender and receiver go with it, the
\* registry is left as it is.  An insert it was suspended in may or may not
\* have reached the store.
Cancel(h) ==
    /\ pc[h] \in AwaitPoints
    /\ pc' = [pc EXCEPT ![h] = "cancelled"]
    /\ tx' = [tx EXCEPT ![h] = FALSE]
    /\ rx' = [rx EXCEPT ![h] = 0]
    /\ inbox' = [inbox EXCEPT ![h] = None]
    /\ sr' = [sr EXCEPT ![h] = 0]
    /\ resp' = [resp EXCEPT ![h] = NoResponse]
    /\ src' = [src EXCEPT ![h] = "none"]
    /\ tried' = [tried EXCEPT ![h] = << >>]
    /\ \/ UNCHANGED << store, everInserted >>
       \/ /\ pc[h] = "insert"
          /\ store' = cache_insert(store, cache_key(req[h]), resp[h],
                                   ttl_for_request(req[h], DefaultTtlMs), now)
          /\ everInserted' = everInserted \cup {cache_key(req[h])}
    /\ UNCHANGED << req, ops, liveUntil, inflight, uvars, now, evars >>

(***************************************************************************)
(* handler/rpc.rs: token_rpc_handler, open_rpc_handler, dispatch_rpc.      *)
(* The router sends POST /<segment> to token_rpc_handler and every other   *)
(* POST to open_rpc_handler; a path is given by its segment, "" for POST /.*)
(***************************************************************************)
Tokens == { None, Some("secret") }
Paths == { "", "secret", "other" }

\* lines 24-32, 44-52: the rejection
Unauthorized == [status |-> 401, body |-> ErrorResponse(NullId, -32000)]

\* a token handler that lets every path through
token_rpc_handler_open(tk, path_token) == None

\* lines 19-35: the rejection, or None when the request goes to dispatch_rpc
token_rpc_handler(tk, path_token) ==
    IF IsSome(tk) /\ path_token # Unwrap(tk) THEN Some(Unauthorized) ELSE None

\* lines 43-54
open_rpc_handler(tk) == IF IsSome(tk) THEN Some(Unauthorized) ELSE None

route(tk, path) ==
    IF path = "" THEN open_rpc_handler(tk) ELSE token_rpc_handler(tk, path)

\* JsonRpcBody as serde parses it, or the failure to
ParseFailure == [parsed |-> FALSE, batch |-> FALSE, requests |-> << >>]
Single(r) == [parsed |-> TRUE, batch |-> FALSE, requests |-> << r >>]
Batch(rs) == [parsed |-> TRUE, batch |-> TRUE, requests |-> rs]

\* a POST arrives on connection h: the gate, then dispatch_rpc up to its
\* first call of handle_single_request
Post(h, paths, bodies) ==
    /\ http[h].st = "none"
    /\ pc[h] = "idle"
    /\ \E path \in paths, body \in bodies :
        LET rejected == route(token, path)
            returned(is_batch, bodies_out, how, code) ==
                [st |-> "returned", path |-> path, batch |-> is_batch, requests |-> << >>,
                 responses |-> bodies_out, via |-> how, status |-> code]
        IN http' = [http EXCEPT ![h] =
              IF IsSome(rejected)
              THEN returned(FALSE, << Unwrap(rejected).body >>, << "unauthorized" >>,
                            Unwrap(rejected).status)
              ELSE IF ~body.parsed
              THEN returned(FALSE, << parse_error >>, << "parse" >>, 200)
              ELSE IF body.requests = << >>
              THEN returned(TRUE, << >>, << >>, 200)
              ELSE [st |-> "dispatch", path |-> path, batch |-> body.batch,
                    requests |-> body.requests, responses |-> << >>, via |-> << >>,
                    status |-> 0]]
    /\ UNCHANGED << hvars, cvars, uvars, now, token, endpoint, call >>

\* lines 66, 75: dispatch_rpc calls handle_single_request on the next request
Element(h) ==
    /\ http[h].st = "dispatch"
    /\ LET r == http[h].requests[Len(http[h].responses) + 1]
       IN Begin(h, { [jsonrpc |-> r.jsonrpc, method |-> r.method, params |-> r.params] },
                { r.id })

\* a dispatcher that puts each response in front of the earlier ones
Collect_front(h) ==
    /\ http[h].st = "dispatch"
    /\ pc[h] = "done"
    /\ LET rs == << resp[h] >> \o http[h].responses
           last == Len(rs) = Len(http[h].requests)
       IN /\ http' = [http EXCEPT ![h].responses = rs,
                                  ![h].via = << src[h] >> \o @,
                                  ![h].st = IF last THEN "returned" ELSE "dispatch",
                                  ![h].status = IF last THEN 200 ELSE 0]
          /\ IF last
             THEN UNCHANGED << pc, req, sr, resp, src, ops, liveUntil, tried >>
             ELSE /\ pc' = [pc EXCEPT ![h] = "idle"]
                  /\ req' = [req EXCEPT ![h] = NoRequest]
                  /\ sr' = [sr EXCEPT ![h] = 0]
                  /\ resp' = [resp EXCEPT ![h] = NoResponse]
                  /\ src' = [src EXCEPT ![h] = "none"]
                  /\ ops' = [ops EXCEPT ![h] = {}]
                  /\ liveUntil' = [liveUntil EXCEPT ![h] = 0]
                  /\ tried' = [tried EXCEPT ![h] = << >>]
    /\ UNCHANGED << tx, rx, inbox, cvars, uvars, now, token, endpoint, call >>

\* lines 67-69, 76-80: handle_single_request has returned; its response is
\* the body (Single) or is pushed onto the responses (Batch), and the loop
\* goes on or the HTTP response is sent with status 200
Collect(h) ==
    /\ http[h].st = "dispatch"
    /\ pc[h] = "done"
    /\ LET rs == Append(http[h].responses, resp[h])
           last == Len(rs) = Len(http[h].requests)
       IN /\ http' = [http EXCEPT ![h].responses = rs,
                                  ![h].via = Append(@, src[h]),
                                  ![h].st = IF last THEN "returned" ELSE "dispatch",
                                  ![h].status = IF last THEN 200 ELSE 0]
          /\ IF last
             THEN UNCHANGED << pc, req, sr, resp, src, ops, liveUntil, tried >>
             ELSE /\ pc' = [pc EXCEPT ![h] = "idle"]
                  /\ req' = [req EXCEPT ![h] = NoRequest]
                  /\ sr' = [sr EXCEPT ![h] = 0]
                  /\ resp' = [resp EXCEPT ![h] = NoResponse]
                  /\ src' = [src EXCEPT ![h] = "none"]
                  /\ ops' = [ops EXCEPT ![h] = {}]
                  /\ liveUntil' = [liveUntil EXCEPT ![h] = 0]
                  /\ tried' = [tried EXCEPT ![h] = << >>]
    /\ UNCHANGED << tx, rx, inbox, cvars, uvars, now, token, endpoint, call >>

(***************************************************************************)
(* upstream/manager.rs: send_request                                       *)
(***************************************************************************)
\* what send_request did with backend b: "skip" (read as Down), "ok" or "err"
\* (forwarded in the priority pass), "lr_ok" or "lr_err" (the last resort)
Event(b, ev) == [b |-> b, ev |-> ev]

\* a loop that gives up the priority pass after any backend
NextBackend_give_up(h, i) ==
    /\ pc' = [pc EXCEPT ![h] = "lr_fwd"]
    /\ sr' = [sr EXCEPT ![h] = 1]

\* a loop that tries the same backend again
NextBackend_retry(h, i) ==
    /\ pc' = [pc EXCEPT ![h] = "sr_read"]
    /\ sr' = [sr EXCEPT ![h] = i]

\* after backend i of the priority pass: the next one, or the last resort
NextBackend(h, i) ==
    IF i < NumBackends
    THEN /\ pc' = [pc EXCEPT ![h] = "sr_read"]
         /\ sr' = [sr EXCEPT ![h] = i + 1]
    ELSE /\ pc' = [pc EXCEPT ![h] = "lr_fwd"]
         /\ sr' = [sr EXCEPT ![h] = 1]

\* the read of the backend's state without the skip of lines 41-44
SrRead_contact_down(h) ==
    /\ pc[h] = "sr_read"
    /\ pc' = [pc EXCEPT ![h] = "sr_fwd"]
    /\ UNCHANGED << sr, tried >>
    /\ UNCHANGED << req, tx, rx, inbox, resp, src, ops, liveUntil, cvars, uvars, now, evars >>

\* lines 36-44: read the backend's state, skip it when Down
SrRead(h) ==
    /\ pc[h] = "sr_read"
    /\ IF status[sr[h]].state = "Down"
       THEN /\ NextBackend(h, sr[h])
            /\ tried' = [tried EXCEPT ![h] = Append(@, Event(sr[h], "skip"))]
       ELSE /\ pc' = [pc EXCEPT ![h] = "sr_fwd"]
            /\ UNCHANGED << sr, tried >>
    /\ UNCHANGED << req, tx, rx, inbox, resp, src, ops, liveUntil, cvars, uvars, now, evars >>

\* lines 46-60: the forward completes and its outcome is recorded
SrForward(h) ==
    /\ pc[h] = "sr_fwd"
    /\ \/ \E body \in UpstreamBodies(req[h]), latency \in LatencySamples :
            /\ status' = [status EXCEPT ![sr[h]] = record_success(@, latency)]
            /\ Deliver(h, Some(body))
            /\ tried' = [tried EXCEPT ![h] = Append(@, Event(sr[h], "ok"))]
            /\ UNCHANGED sr
       \/ /\ status' = [status EXCEPT ![sr[h]] = record_error(@)]
          /\ NextBackend(h, sr[h])
          /\ tried' = [tried EXCEPT ![h] = Append(@, Event(sr[h], "err"))]
          /\ UNCHANGED << resp, src >>
    /\ UNCHANGED << req, tx, rx, inbox, ops, liveUntil, cvars, sweep, sweeps, endStale,
                    ticker, health_notify, now, evars >>

\* a last resort that returns a success without recording it
LrForward_unrecorded(h) ==
    /\ pc[h] = "lr_fwd"
    /\ \/ \E body \in UpstreamBodies(req[h]) :
            /\ Deliver(h, Some(body))
            /\ tried' = [tried EXCEPT ![h] = Append(@, Event(1, "lr_ok"))]
       \/ /\ Deliver(h, None)
          /\ tried' = [tried EXCEPT ![h] = Append(@, Event(1, "lr_err"))]
    /\ UNCHANGED << req, sr, tx, rx, inbox, ops, liveUntil, cvars, uvars, now, evars >>

\* a last resort on the last configured backend
LrForward_last_backend(h) ==
    /\ pc[h] = "lr_fwd"
    /\ \/ \E body \in UpstreamBodies(req[h]), latency \in LatencySamples :
            /\ status' = [status EXCEPT ![NumBackends] = record_success(@, latency)]
            /\ Deliver(h, Some(body))
            /\ tried' = [tried EXCEPT ![h] = Append(@, Event(NumBackends, "lr_ok"))]
       \/ /\ Deliver(h, None)
          /\ tried' = [tried EXCEPT ![h] = Append(@, Event(NumBackends, "lr_err"))]
          /\ UNCHANGED status
    /\ UNCHANGED << req, sr, tx, rx, inbox, ops, liveUntil, cvars, sweep, sweeps, endStale,
                    ticker, health_notify, now, evars >>

\* lines 63-77: the last-resort attempt on the first backend
LrForward(h) ==
    /\ pc[h] = "lr_fwd"
    /\ \/ \E body \in UpstreamBodies(req[h]), latency \in LatencySamples :
            /\ status' = [status EXCEPT ![1] = record_success(@, latency)]
            /\ Deliver(h, Some(body))
            /\ tried' = [tried EXCEPT ![h] = Append(@, Event(1, "lr_ok"))]
       \/ /\ Deliver(h, None)
          /\ tried' = [tried EXCEPT ![h] = Append(@, Event(1, "lr_err"))]
          /\ UNCHANGED status
    /\ UNCHANGED << req, sr, tx, rx, inbox, ops, liveUntil, cvars, sweep, sweeps, endStale,
                    ticker, health_notify, now, evars >>

(***************************************************************************)
(* upstream/manager.rs: check_all_backends, one sweep of the health        *)
(* supervisor.  A probe answers with a head or fails.                      *)
(***************************************************************************)
Heads == { 1, MaxHead - 1, MaxHead }

\* lines 156-160
better(best, block_number) ==
    IF IsSome(best) /\ block_number > Unwrap(best) THEN Some(block_number)
    ELSE IF ~IsSome(best) THEN Some(block_number)
    ELSE best

\* a demotion that also ends the backend's streak of successes
demote_reset_streak(b, best) ==
    IF /\ IsSome(b.latest_block)
       /\ best > Unwrap(b.latest_block)
       /\ best - Unwrap(b.latest_block) > StaleBlocks
       /\ b.state = "Healthy"
    THEN [b EXCEPT !.state = "Degraded", !.consecutive_successes = 0]
    ELSE b

\* the demotion without the test for Healthy of line 176
demote_any_state(b, best) ==
    IF /\ IsSome(b.latest_block)
       /\ best > Unwrap(b.latest_block)
       /\ best - Unwrap(b.latest_block) > StaleBlocks
    THEN [b EXCEPT !.state = "Degraded"]
    ELSE b

\* lines 174-177: the stale test and the demotion of one backend
demote(b, best) ==
    IF /\ IsSome(b.latest_block)
       /\ best > Unwrap(b.latest_block)
       /\ best - Unwrap(b.latest_block) > StaleBlocks
       /\ b.state = "Healthy"
    THEN [b EXCEPT !.state = "Degraded"]
    ELSE b

\* backends that are Healthy with latest_block + 10 < best in statuses st
HealthyStale(st, best) ==
    { b \in DOMAIN st :
        /\ st[b].state = "Healthy"
        /\ IsSome(st[b].latest_block)
        /\ IsSome(best)
        /\ Unwrap(st[b].latest_block) + StaleBlocks < Unwrap(best) }

(***************************************************************************)
(* health.rs: start_health_checker.  ticker is "first" while the checker   *)
(* awaits the interval's first tick, "waiting" while the period of the     *)
(* next tick has not elapsed, "due" once it has.                           *)
(***************************************************************************)
\* lines 13-14: the interval's first tick completes at once and is skipped
FirstTick ==
    /\ ticker = "first"
    /\ ticker' = "waiting"
    /\ UNCHANGED << hvars, cvars, status, sweep, sweeps, endStale, health_notify, now, evars >>

\* the period of the interval elapses
IntervalElapses ==
    /\ ticker = "waiting"
    /\ ticker' = "due"
    /\ UNCHANGED << hvars, cvars, status, sweep, sweeps, endStale, health_notify, now, evars >>

\* Notify::notify_one called on the reactive signal: it stores a permit; a
\* second call before the permit is taken changes nothing
NotifyOne ==
    /\ ~health_notify
    /\ health_notify' = TRUE
    /\ UNCHANGED << hvars, cvars, status, sweep, sweeps, endStale, ticker, now, evars >>

\* a sweep that leaves out the first backend
SweepStart_skip_first(max) ==
    /\ sweep.pc = "idle"
    /\ ticker = "due"
    /\ sweeps < max
    /\ sweeps' = sweeps + 1
    /\ ticker' = "waiting"
    /\ sweep' = [pc |-> "probe", i |-> NumBackends, best |-> None, recovered |-> {}]
    /\ UNCHANGED << hvars, cvars, status, endStale, health_notify, now, evars >>

\* lines 16-19: the checker takes the tick that is due and enters the sweep
SweepStart(max) ==
    /\ sweep.pc = "idle"
    /\ ticker = "due"
    /\ sweeps < max
    /\ sweeps' = sweeps + 1
    /\ ticker' = "waiting"
    /\ sweep' = [pc |-> "probe", i |-> 1, best |-> None, recovered |-> {}]
    /\ UNCHANGED << hvars, cvars, status, endStale, health_notify, now, evars >>

\* a probe whose success does not store the head it read
SweepProbe_keep_block ==
    /\ sweep.pc = "probe"
    /\ \E outcome \in { Some(n) : n \in Heads } \cup { None } :
        LET i == sweep.i
            st == IF IsSome(outcome)
                  THEN [status EXCEPT ![i] = record_success(@, 0)]
                  ELSE [status EXCEPT ![i] = record_error(@)]
            best == IF IsSome(outcome) THEN better(sweep.best, Unwrap(outcome))
                    ELSE sweep.best
            rec == IF IsSome(outcome) /\ status[i].state = "Down"
                   THEN sweep.recovered \cup {i}
                   ELSE sweep.recovered
        IN /\ status' = st
           /\ IF i < NumBackends
              THEN /\ sweep' = [pc |-> "probe", i |-> i + 1, best |-> best,
                                recovered |-> rec]
                   /\ UNCHANGED endStale
              ELSE IF IsSome(best)
              THEN /\ sweep' = [pc |-> "demote", i |-> 1, best |-> best,
                                recovered |-> rec]
                   /\ UNCHANGED endStale
              ELSE /\ sweep' = IdleSweep
                   /\ endStale' = HealthyStale(st, best)
    /\ UNCHANGED << hvars, cvars, sweeps, ticker, health_notify, now, evars >>

\* lines 147-168: the probe of backend i completes and is recorded
SweepProbe ==
    /\ sweep.pc = "probe"
    /\ \E outcome \in { Some(n) : n \in Heads } \cup { None } :
        LET i == sweep.i
            st == IF IsSome(outcome)
                  THEN [status EXCEPT ![i] =
                          record_success([@ EXCEPT !.latest_block = outcome], 0)]
                  ELSE [status EXCEPT ![i] = record_error(@)]
            best == IF IsSome(outcome) THEN better(sweep.best, Unwrap(outcome))
                    ELSE sweep.best
            rec == IF IsSome(outcome) /\ status[i].state = "Down"
                   THEN sweep.recovered \cup {i}
                   ELSE sweep.recovered
        IN /\ status' = st
           /\ IF i < NumBackends
              THEN /\ sweep' = [pc |-> "probe", i |-> i + 1, best |-> best,
                                recovered |-> rec]
                   /\ UNCHANGED endStale
              ELSE IF IsSome(best)
              THEN /\ sweep' = [pc |-> "demote", i |-> 1, best |-> best,
                                recovered |-> rec]
                   /\ UNCHANGED endStale
              ELSE /\ sweep' = IdleSweep
                   /\ endStale' = HealthyStale(st, best)
    /\ UNCHANGED << hvars, cvars, sweeps, ticker, health_notify, now, evars >>

\* lines 171-188: the demotion pass visits backend i
SweepDemote ==
    /\ sweep.pc = "demote"
    /\ LET i == sweep.i
           st == [status EXCEPT ![i] = demote(@, Unwrap(sweep.best))]
       IN /\ status' = st
          /\ IF i < NumBackends
             THEN /\ sweep' = [sweep EXCEPT !.i = i + 1]
                  /\ UNCHANGED endStale
             ELSE /\ sweep' = IdleSweep
                  /\ endStale' = HealthyStale(st, sweep.best)
    /\ UNCHANGED << hvars, cvars, sweeps, ticker, health_notify, now, evars >>

(***************************************************************************)
(* handler/status.rs, handler/auth.rs: GET /health and GET /readiness.     *)
(* Both read the backend records one at a time, each under its own lock;   *)
(* seen is what the request has read so far.                               *)
(***************************************************************************)
\* the token of the Authorization header, None without a Bearer header
Bearers == { None, Some("secret"), Some("other") }

\* auth.rs 6-14
check_bearer_token(tk, bearer) ==
    IF ~IsSome(tk) THEN TRUE
    ELSE IF IsSome(bearer) THEN Unwrap(bearer) = Unwrap(tk)
    ELSE FALSE

\* a test that takes any Healthy backend
healthy_any_block(s) == s.state = "Healthy"

\* manager.rs 131, status.rs 28
healthy_with_block(s) == s.state = "Healthy" /\ IsSome(s.latest_block)

\* what a request reads of a backend record
Read(b) == [state |-> status[b].state, latest_block |-> status[b].latest_block]

\* status.rs 11-12: GET /health enters has_healthy_backend_with_block
GetHealth ==
    /\ endpoint.pc = "idle"
    /\ endpoint' = [kind |-> "health", pc |-> "read", i |-> 1, bearer |-> None,
                    seen |-> << >>, code |-> 0]
    /\ UNCHANGED << hvars, cvars, uvars, now, token, http, call >>

\* manager.rs 128-136, status.rs 13-17: the read of backend i; the first
\* Healthy backend with a block ends the loop
HealthRead ==
    /\ endpoint.kind = "health" /\ endpoint.pc = "read"
    /\ LET i == endpoint.i
           seen == Append(endpoint.seen, Read(i))
       IN endpoint' =
            IF healthy_with_block(Read(i))
            THEN [endpoint EXCEPT !.seen = seen, !.pc = "done", !.code = 200]
            ELSE IF i < NumBackends
            THEN [endpoint EXCEPT !.seen = seen, !.i = i + 1]
            ELSE [endpoint EXCEPT !.seen = seen, !.pc = "done", !.code = 503]
    /\ UNCHANGED << hvars, cvars, uvars, now, token, http, call >>

\* status.rs 21-27: GET /readiness passes the bearer check and enters
\* backend_statuses, or is answered by 401
GetReadiness ==
    /\ endpoint.pc = "idle"
    /\ \E bearer \in Bearers :
        endpoint' =
            IF ~check_bearer_token(token, bearer)
            THEN [kind |-> "readiness", pc |-> "done", i |-> 0, bearer |-> bearer,
                  seen |-> << >>, code |-> 401]
            ELSE [kind |-> "readiness", pc |-> "read", i |-> 1, bearer |-> bearer,
                  seen |-> << >>, code |-> 0]
    /\ UNCHANGED << hvars, cvars, uvars, now, token, http, call >>

\* manager.rs 110-126, status.rs 28-39: the read of backend i; after the
\* last one the answer is made of what was read
ReadinessRead ==
    /\ endpoint.kind = "readiness" /\ endpoint.pc = "read"
    /\ LET i == endpoint.i
           seen == Append(endpoint.seen, Read(i))
       IN endpoint' =
            IF i < NumBackends
            THEN [endpoint EXCEPT !.seen = seen, !.i = i + 1]
            ELSE [endpoint EXCEPT !.seen = seen, !.pc = "done",
                     !.code = IF \E j \in DOMAIN seen : healthy_with_block(seen[j])
                              THEN 200 ELSE 503]
    /\ UNCHANGED << hvars, cvars, uvars, now, token, http, call >>

\* time passes
Tick ==
    /\ now < MaxTicks * DefaultTtlMs
    /\ now' = now + DefaultTtlMs
    /\ UNCHANGED << hvars, cvars, uvars, evars >>

(***************************************************************************)
(* The systems.                                                            *)
(***************************************************************************)
HandlerStep(h) ==
    \/ Get(h) \/ Subscribe(h) \/ Recv(h) \/ Register(h)
    \/ SrRead(h) \/ SrForward(h) \/ LrForward(h) \/ Insert(h) \/ Remove(h)

\* Handlers on any request, with clients that may disconnect, over two
\* backends, and the clock.
Init == InitWith(MaxHandlers, 2)

Next ==
    \/ \E h \in 1..MaxHandlers : Begin(h, Bodies, Ids)
    \/ \E h \in 1..MaxHandlers : Get(h)
    \/ \E h \in 1..MaxHandlers : Subscribe(h)
    \/ \E h \in 1..MaxHandlers : Recv(h)
    \/ \E h \in 1..MaxHandlers : Register(h)
    \/ \E h \in 1..MaxHandlers : SrRead(h)
    \/ \E h \in 1..MaxHandlers : SrForward(h)
    \/ \E h \in 1..MaxHandlers : LrForward(h)
    \/ \E h \in 1..MaxHandlers : Insert(h)
    \/ \E h \in 1..MaxHandlers : Remove(h)
    \/ \E h \in 1..MaxHandlers : Cancel(h)
    \/ Tick

Spec == Init /\ [][Next]_vars

\* The upstream manager under user requests and health sweeps: callers of
\* send_request (requests the cache never sees) beside the supervisor.
UpBodies == { b \in Bodies : is_valid(b) /\ ~should_cache(b.method) }

UpInit == InitWith(MaxCallers, 2)

UpNext ==
    \/ \E h \in 1..MaxCallers : Begin(h, UpBodies, {1})
    \/ \E h \in 1..MaxCallers : SrRead(h)
    \/ \E h \in 1..MaxCallers : SrForward(h)
    \/ \E h \in 1..MaxCallers : LrForward(h)
    \/ FirstTick \/ IntervalElapses
    \/ SweepStart(MaxUpSweeps) \/ SweepProbe \/ SweepDemote

UpSpec == UpInit /\ [][UpNext]_vars

\* The same system from the state three failed requests on the first backend
\* leave it in: the first backend is Down, the second untouched.
ThreeErrors == record_error(record_error(record_error(NewBackendStatus)))

RecInit == InitFrom(MaxCallers, << ThreeErrors, NewBackendStatus >>)

RecNext ==
    \/ \E h \in 1..MaxCallers : Begin(h, UpBodies, {1})
    \/ \E h \in 1..MaxCallers : SrRead(h)
    \/ \E h \in 1..MaxCallers : SrForward(h)
    \/ \E h \in 1..MaxCallers : LrForward(h)
    \/ FirstTick \/ IntervalElapses
    \/ SweepStart(MaxRecSweeps) \/ SweepProbe \/ SweepDemote

RecSpec == RecInit /\ [][RecNext]_vars

\* the record two failed requests leave: Degraded, one error short of Down
TwoErrors == record_error(record_error(NewBackendStatus))

\* send_request alone, from every combination of fresh, Degraded and Down
\* backends.
\* A caller's task is scheduled whenever it can run, a backend's lock is
\* granted, and every forward ends (the HTTP client has a timeout): the
\* steps of each send_request are weakly fair.
SendInit ==
    \E st \in [1..2 -> { NewBackendStatus, TwoErrors, ThreeErrors }] :
        InitFrom(MaxCallers, st)

SendStep(h) == SrRead(h) \/ SrForward(h) \/ LrForward(h)

SendNext ==
    \/ \E h \in 1..MaxCallers : Begin(h, UpBodies, {1})
    \/ \E h \in 1..MaxCallers : SrRead(h)
    \/ \E h \in 1..MaxCallers : SrForward(h)
    \/ \E h \in 1..MaxCallers : LrForward(h)

SendSpec ==
    /\ SendInit
    /\ [][SendNext]_vars
    /\ \A h \in 1..MaxCallers : WF_vars(SendStep(h))

\* The health supervisor without user traffic, from every combination of
\* fresh, Degraded and Down backends.  The interval keeps ticking, the
\* checker's task is scheduled when a tick is due, and every probe ends (its
\* client has a timeout of 5 s): each step of the supervisor is weakly fair.
SupervisorInit ==
    \E st \in [1..2 -> { NewBackendStatus, TwoErrors, ThreeErrors }] :
        InitFrom(MaxCallers, st)

SupervisorNext ==
    \/ FirstTick \/ IntervalElapses
    \/ SweepStart(MaxUpSweeps) \/ SweepProbe \/ SweepDemote

SupervisorSpec ==
    /\ SupervisorInit
    /\ [][SupervisorNext]_vars
    /\ WF_vars(FirstTick) /\ WF_vars(IntervalElapses)
    /\ WF_vars(SweepStart(MaxUpSweeps)) /\ WF_vars(SweepProbe) /\ WF_vars(SweepDemote)

\* The health checker beside user requests and callers of notify_one on the
\* reactive signal.
HealthInit == InitWith(MaxCallers, 2)

HealthNext ==
    \/ \E h \in 1..MaxCallers : Begin(h, UpBodies, {1})
    \/ \E h \in 1..MaxCallers : SrRead(h)
    \/ \E h \in 1..MaxCallers : SrForward(h)
    \/ \E h \in 1..MaxCallers : LrForward(h)
    \/ FirstTick \/ IntervalElapses \/ NotifyOne
    \/ SweepStart(MaxRecSweeps) \/ SweepProbe \/ SweepDemote

HealthSpec == HealthInit /\ [][HealthNext]_vars

\* Handlers of one cacheable request over one backend.  The runtime
\* schedules every task that can run, every lock is granted and every
\* upstream call ends (it has a timeout): each handler's step is weakly fair.
\* Requests need not arrive and clients need not disconnect.
FairBodies == { b \in Bodies : is_valid(b) /\ b.method = "eth_blockNumber" }

FairInit == InitWith(MaxHandlers, 1)

FairNext ==
    \/ \E h \in 1..MaxHandlers : Begin(h, FairBodies, Ids)
    \/ \E h \in 1..MaxHandlers : HandlerStep(h)
    \/ \E h \in 1..MaxHandlers : Cancel(h)

FairSpec ==
    /\ FairInit
    /\ [][FairNext]_vars
    /\ \A h \in 1..MaxHandlers : WF_vars(HandlerStep(h))

\* The status endpoints beside a caller of send_request and the health
\* supervisor, with and without a configured token.
StatusInit ==
    /\ \E tk \in Tokens :
          InitCfg(MaxStatusCallers, [b \in 1..2 |-> NewBackendStatus], tk)
    /\ call = NoCall

StatusNext ==
    \/ \E h \in 1..MaxStatusCallers : Begin(h, UpBodies, {1})
    \/ \E h \in 1..MaxStatusCallers : SrRead(h)
    \/ \E h \in 1..MaxStatusCallers : SrForward(h)
    \/ \E h \in 1..MaxStatusCallers : LrForward(h)
    \/ FirstTick \/ IntervalElapses
    \/ SweepStart(MaxRecSweeps) \/ SweepProbe \/ SweepDemote
    \/ GetHealth \/ HealthRead \/ GetReadiness \/ ReadinessRead

StatusSpec == StatusInit /\ [][StatusNext]_vars

\* POSTs of single requests on any path, with and without a configured
\* token, over one backend.
HttpPool == { b \in Bodies : b.jsonrpc = "2.0" /\ b.method \in { "eth_blockNumber", "" } }
HttpRequests == { MkRequest(b, id) : b \in HttpPool, id \in Ids }
SingleBodies == { Single(r) : r \in HttpRequests } \cup { ParseFailure }

AuthInit ==
    /\ \E tk \in Tokens : InitCfg(MaxHandlers, << NewBackendStatus >>, tk)
    /\ call = NoCall

AuthNext ==
    \/ \E h \in 1..MaxHandlers : Post(h, Paths, SingleBodies)
    \/ \E h \in 1..MaxHandlers : Element(h)
    \/ \E h \in 1..MaxHandlers : Collect(h)
    \/ \E h \in 1..MaxHandlers : Get(h)
    \/ \E h \in 1..MaxHandlers : Subscribe(h)
    \/ \E h \in 1..MaxHandlers : Recv(h)
    \/ \E h \in 1..MaxHandlers : Register(h)
    \/ \E h \in 1..MaxHandlers : SrRead(h)
    \/ \E h \in 1..MaxHandlers : SrForward(h)
    \/ \E h \in 1..MaxHandlers : LrForward(h)
    \/ \E h \in 1..MaxHandlers : Insert(h)
    \/ \E h \in 1..MaxHandlers : Remove(h)

AuthSpec == AuthInit /\ [][AuthNext]_vars

\* A connection that carries a batch of up to MaxBatch requests beside the
\* others, which carry single requests, on the open path over one backend.
BatchBodies ==
    { Batch(rs) : rs \in UNION { [1..n -> HttpRequests] : n \in 0..MaxBatch } }

BatchInit == InitFrom(MaxHandlers, << NewBackendStatus >>)

BatchNext ==
    \/ \E h \in 1..MaxHandlers :
          Post(h, { "" }, IF h = 1 THEN BatchBodies ELSE SingleBodies)
    \/ \E h \in 1..MaxHandlers : Element(h)
    \/ \E h \in 1..MaxHandlers : Collect(h)
    \/ \E h \in 1..MaxHandlers : Get(h)
    \/ \E h \in 1..MaxHandlers : Subscribe(h)
    \/ \E h \in 1..MaxHandlers : Recv(h)
    \/ \E h \in 1..MaxHandlers : Register(h)
    \/ \E h \in 1..MaxHandlers : SrRead(h)
    \/ \E h \in 1..MaxHandlers : SrForward(h)
    \/ \E h \in 1..MaxHandlers : LrForward(h)
    \/ \E h \in 1..MaxHandlers : Insert(h)
    \/ \E h \in 1..MaxHandlers : Remove(h)

BatchSpec == BatchInit /\ [][BatchNext]_vars

\* The cache policy and the fingerprint applied to requests: the methods of
\* the immutable list, the two methods the policy looks into, and two
\* others, over params of every shape.
HexBlock == JArray(<< JString(<< "0", "x", "1", "2", "3" >>), JString(<< "t" >>) >>)
BareHexBlock == JArray(<< JString(<< "0", "x" >>) >>)
HexSecond == JArray(<< JString(<< "l", "a", "t", "e", "s", "t" >>),
                       JString(<< "0", "x", "1" >>) >>)
TagBlocks ==
    { JArray(<< JString(<< "l", "a", "t", "e", "s", "t" >>) >>),
      JArray(<< JString(<< "p", "e", "n", "d", "i", "n", "g" >>) >>),
      JArray(<< JString(<< "e", "a", "r", "l", "i", "e", "s", "t" >>) >>) }
HashFilter ==
    JArray(<< JObject(<< << "blockHash", JString(<< "0", "x", "a", "b", "c" >>) >> >>) >>)
NullHashFilter ==
    JArray(<< JObject(<< << "blockHash", JNull >>,
                         << "fromBlock", JString(<< "0", "x", "1" >>) >> >>) >>)
RangeFilter ==
    JArray(<< JObject(<< << "fromBlock", JString(<< "0", "x", "1" >>) >>,
                         << "toBlock", JString(<< "0", "x", "2" >>) >> >>) >>)
\* params that are an object, not an array
ByName == JObject(<< << "blockHash", JString(<< "0", "x", "a", "b", "c" >>) >> >>)
OtherParams ==
    { JNull, JArray(<< >>),
      JArray(<< JNumber(<< "1" >>) >>),
      JArray(<< JString(<< "1" >>) >>),
      JArray(<< JString(<< "X", "0", "x" >>) >>),
      JArray(<< JString(<< "a" >>), JString(<< "b" >>) >>),
      JArray(<< JString(<< "a", "\"", ",", "\"", "b" >>) >>),
      JArray(<< JString(<< "\\" >>) >>),
      JArray(<< JString(<< "\\", "\\" >>) >>) }

SampleParams ==
    { HexBlock, BareHexBlock, HexSecond, HashFilter, NullHashFilter, RangeFilter, ByName }
        \cup TagBlocks \cup OtherParams

SampleMethods ==
    IMMUTABLE_METHODS
        \cup { "eth_getBlockByNumber", "eth_getLogs", "eth_blockNumber", "eth_gasPrice" }

\* the caller-provided default TTLs
DefaultTtls == { DefaultTtlMs, 2 * DefaultTtlMs }

PolicyInputs ==
    { [ op |-> "input",
        request |-> [jsonrpc |-> "2.0", method |-> m, params |-> p, id |-> id],
        other |-> [jsonrpc |-> "2.0", method |-> m, params |-> q, id |-> jd],
        default_ttl |-> d ] :
      m \in SampleMethods, p \in SampleParams, q \in SampleParams,
      id \in Ids, jd \in Ids, d \in DefaultTtls }

CallTtlForRequest ==
    /\ call.op = "input"
    /\ call' = [ op |-> "ttl_for_request", request |-> call.request,
                 default_ttl |-> call.default_ttl,
                 result |-> ttl_for_request(call.request, call.default_ttl) ]
    /\ UNCHANGED << hvars, cvars, uvars, now, token, http, endpoint >>

CallCacheKey ==
    /\ call.op = "input"
    /\ call' = [ op |-> "cache_key", request |-> call.request, other |-> call.other,
                 result |-> cache_key(call.request),
                 other_result |-> cache_key(call.other) ]
    /\ UNCHANGED << hvars, cvars, uvars, now, token, http, endpoint >>

PolicyInit ==
    /\ InitCfg(MaxHandlers, [b \in 1..2 |-> NewBackendStatus], None)
    /\ call \in PolicyInputs

PolicyNext == CallTtlForRequest \/ CallCacheKey

PolicySpec == PolicyInit /\ [][PolicyNext]_vars

\* The store under direct calls of insert and get, as its unit tests make
\* them, while time passes.
StoreKeys == { cache_key(b) : b \in { c \in Bodies : is_valid(c) /\ should_cache(c.method) } }
StoreResponses == { Response(Some(r), None, 1) : r \in { "0x1", "0x2" } }
TtlSamples == { DefaultTtlMs, 2 * DefaultTtlMs }

StoreInsert ==
    /\ \E k \in StoreKeys, r \in StoreResponses, ttl \in TtlSamples :
        /\ store' = cache_insert(store, k, r, ttl, now)
        /\ everInserted' = everInserted \cup {k}
        /\ call' = [op |-> "insert", key |-> k]
    /\ UNCHANGED << hvars, inflight, uvars, now, token, http, endpoint >>

StoreGet ==
    /\ \E k \in StoreKeys :
        call' = [op |-> "get", key |-> k, at |-> now,
                 result |-> cache_get(store, k, now)]
    /\ UNCHANGED << hvars, cvars, uvars, now, token, http, endpoint >>

StoreTick ==
    /\ now < MaxStoreTicks * DefaultTtlMs
    /\ now' = now + DefaultTtlMs
    /\ UNCHANGED << hvars, cvars, uvars, evars >>

StoreInit == InitFrom(MaxHandlers, [b \in 1..2 |-> NewBackendStatus])

StoreNext == StoreInsert \/ StoreGet \/ StoreTick

StoreSpec == StoreInit /\ [][StoreNext]_vars

(***************************************************************************)
(* The claims.                                                             *)
(***************************************************************************)
Key(h) == cache_key(req[h])
Cacheable(h) == is_valid(req[h]) /\ should_cache(req[h].method)

\* the handler has entered send_request and has neither inserted its result
\* nor removed its slot
InFlightWindow(h) == pc[h] \in { "sr_read", "sr_fwd", "lr_fwd", "insert" }

\* C1: single-flight.  While a handler of a cacheable request is between its
\* call of send_request and its insert or slot removal, no other handler has
\* a send_request of its own under way for the same fingerprint.
C1_SingleFlight ==
    \A g \in Handlers, h \in Handlers :
        (g # h /\ Cacheable(g) /\ Cacheable(h) /\ InFlightWindow(g) /\ InFlightWindow(h))
            => Key(g) # Key(h)

\* the handler waits on a channel whose creator has returned without a value
\* for it
OwnerFinishedUnpublished(h) ==
    /\ pc[h] = "recv"
    /\ pc[rx[h]] = "done"
    /\ ~IsSome(inbox[h])

\* the handler has returned the outcome of a send_request of its own
ReturnedOwnUpstream(h) ==
    /\ pc[h] = "done"
    /\ "send_request" \in ops[h]
    /\ src[h] \in { "upstream", "failed" }

\* C2: coalescing never wedges a caller.  A handler subscribed to a slot
\* whose owner has finished without publishing stops waiting: it falls
\* through to a send_request of its own and returns its outcome (unless its
\* own client disconnects first).
C2_SubscriberFallsThrough ==
    \A h \in 1..MaxHandlers :
        OwnerFinishedUnpublished(h) ~> (ReturnedOwnUpstream(h) \/ pc[h] = "cancelled")

\* reached: a handler that waited on a slot and then returned its own
\* upstream outcome, the owner having returned an error
C2_Witness ==
    \E h \in Handlers, g \in Handlers :
        /\ g # h
        /\ "recv" \in ops[h]
        /\ ReturnedOwnUpstream(h)
        /\ pc[g] = "done"
        /\ src[g] = "failed"

\* handlers that will still register or remove the slot of key k, whatever
\* the waiter h does
Rescuers(h) ==
    { g \in Handlers \ {h} :
        /\ Cacheable(g)
        /\ Key(g) = Key(h)
        /\ \/ pc[g] \in { "register", "sr_read", "sr_fwd", "lr_fwd", "insert", "remove" }
           \/ pc[g] = "recv" /\ rx[g] # rx[h] }

\* the handler waits on the channel of a cancelled owner, which only the
\* registry keeps open, and nobody is left to replace or remove the slot
Wedged(h) ==
    /\ pc[h] = "recv"
    /\ ~IsSome(inbox[h])
    /\ pc[rx[h]] = "cancelled"
    /\ ~Closed(rx[h])
    /\ Rescuers(h) = {}

\* C3: a handler cancelled between register_inflight and remove_inflight
\* leaves no slot that wedges a later handler of the same fingerprint.
C3_CancelledOwnerWedgesNobody == \A h \in Handlers : ~Wedged(h)

\* C4: a cacheable request that begins while the store holds an entry of its
\* fingerprint, and is looked up within that entry's TTL, is answered from
\* the store with its own id and calls neither the registry nor
\* send_request; and a handler that returned a fresh upstream result for a
\* cacheable request has inserted it.
C4_SecondServedFromStore ==
    \A h \in Handlers :
        /\ (pc[h] \notin { "idle", "get", "cancelled" } /\ now < liveUntil[h])
              => /\ pc[h] = "done"
                 /\ src[h] = "cache"
                 /\ ops[h] = { "get" }
                 /\ resp[h].id = req[h].id
                 /\ ~IsSome(resp[h].error)
        /\ (pc[h] = "done" /\ src[h] = "upstream" /\ Cacheable(h) /\ ~IsSome(resp[h].error))
              => Key(h) \in everInserted

\* reached: two returned handlers of one fingerprint, the first served by an
\* upstream, the second by the store within the TTL, same result, other id
C4_Witness ==
    \E g \in Handlers, h \in Handlers :
        /\ g # h
        /\ pc[g] = "done" /\ src[g] = "upstream" /\ "send_request" \in ops[g]
        /\ pc[h] = "done" /\ src[h] = "cache" /\ ops[h] = { "get" }
        /\ Key(g) = Key(h)
        /\ now < liveUntil[h]
        /\ resp[h].result = resp[g].result
        /\ resp[h].id # resp[g].id

\* the part of C5 that holds of every backend record
C5_Inv ==
    \A b \in Backends :
        /\ status[b].consecutive_errors >= DownThreshold => status[b].state = "Down"
        /\ (1 <= status[b].consecutive_errors /\ status[b].consecutive_errors < DownThreshold)
              => status[b].state = "Degraded"
        /\ status[b].consecutive_errors = 0
              => \/ status[b].state = "Healthy"
                 \/ status[b].state = "Degraded" /\ IsSome(status[b].latest_block)

\* a step that records a success on backend b
SuccessOn(b) ==
    /\ status'[b].total_requests = status[b].total_requests + 1
    /\ status'[b].total_errors = status[b].total_errors

\* a step that records an error on backend b
ErrorOn(b) ==
    /\ status'[b].total_requests = status[b].total_requests + 1
    /\ status'[b].total_errors = status[b].total_errors + 1

\* C5 (amended): consecutive_errors >= 3 implies Down, 1 or 2 implies
\* Degraded, 0 implies Healthy or, for a backend with a latest_block that a
\* sweep demoted as stale, Degraded; and a success leaves the backend
\* Healthy with consecutive_errors = 0.
C5_StateMatchesErrors ==
    /\ []C5_Inv
    /\ [][\A b \in 1..2 :
            SuccessOn(b) => (status'[b].state = "Healthy"
                             /\ status'[b].consecutive_errors = 0)]_vars

\* C5 as claimed: consecutive_errors = 0 implies Healthy.
C5_ZeroErrorsIsHealthy ==
    \A b \in Backends :
        /\ status[b].consecutive_errors >= DownThreshold => status[b].state = "Down"
        /\ (1 <= status[b].consecutive_errors /\ status[b].consecutive_errors < DownThreshold)
              => status[b].state = "Degraded"
        /\ status[b].consecutive_errors = 0 => status[b].state = "Healthy"

\* reached: a backend demoted as stale, and a backend taken Down
C5_Witness ==
    /\ \E b \in Backends :
          status[b].consecutive_errors = 0 /\ status[b].state = "Degraded"
    /\ \E b \in Backends :
          status[b].consecutive_errors >= DownThreshold /\ status[b].state = "Down"

\* C6: a backend with consecutive_errors >= 3 is Down, and every step leaves
\* it Down unless the step records a success on it.
C6_DownUntilSuccess ==
    [][\A b \in 1..2 :
          status[b].consecutive_errors >= DownThreshold
             => /\ status[b].state = "Down"
                /\ \/ SuccessOn(b)
                   \/ /\ status'[b].state = "Down"
                      /\ status'[b].consecutive_errors >= DownThreshold]_vars

\* reached: a Down backend with a stale head that a demotion pass has
\* visited
C6_Witness ==
    \E b \in Backends :
        /\ status[b].state = "Down"
        /\ status[b].consecutive_errors >= DownThreshold
        /\ IsSome(status[b].latest_block)
        /\ sweep.pc = "demote"
        /\ sweep.i > b
        /\ Unwrap(sweep.best) - Unwrap(status[b].latest_block) > StaleBlocks

\* C7: total_errors <= total_requests for every backend.
C7_ErrorsAtMostRequests ==
    \A b \in Backends : status[b].total_errors <= status[b].total_requests

\* reached: a backend with errors and successes recorded by user requests
\* and by a sweep
C7_Witness ==
    \E b \in Backends :
        /\ status[b].total_errors >= 2
        /\ status[b].total_requests > status[b].total_errors
        /\ sweeps >= 1
        /\ \E h \in Handlers : pc[h] = "done"

\* C8: when a sweep ends, no backend is Healthy with latest_block + 10 below
\* the best head the sweep probed.
C8_NoHealthyStaleAtSweepEnd == endStale = {}

\* C9: no key that is the fingerprint of a never-cache method is ever
\* inserted into the store.
C9_NeverCacheNeverInserted ==
    \A b \in Bodies :
        ~should_cache(b.method) => cache_key(b) \notin everInserted

\* reached: a never-cache request returned with a result from an upstream,
\* while the store took an entry of another method
C9_Witness ==
    /\ \E h \in Handlers :
          /\ pc[h] = "done"
          /\ is_valid(req[h])
          /\ req[h].method \in NEVER_CACHE_METHODS
          /\ src[h] = "upstream"
          /\ IsSome(resp[h].result)
    /\ everInserted # {}

\* C10: a valid request of a never-cache method calls send_request and
\* nothing else: no store lookup, no subscribe_inflight, no
\* register_inflight, and it holds neither a sender nor a receiver.
C10_NeverCacheBypasses ==
    \A h \in Handlers :
        (pc[h] # "idle" /\ is_valid(req[h]) /\ req[h].method \in NEVER_CACHE_METHODS)
            => /\ ops[h] = { "send_request" }
               /\ ~tx[h]
               /\ rx[h] = 0
               /\ \A k \in AllKeys : inflight[k] # h

\* reached: two identical never-cache requests inside send_request at once
C10_Witness ==
    \E g \in Handlers, h \in Handlers :
        /\ g # h
        /\ req[g] = req[h]
        /\ req[h].method \in NEVER_CACHE_METHODS
        /\ pc[g] = "sr_fwd"
        /\ pc[h] = "sr_fwd"

\* C11: every response a handler returns carries the id of its own request,
\* whether it came from the store, from an in-flight broadcast, from an
\* upstream or is an error envelope.
C11_ResponseCarriesRequestId ==
    \A h \in Handlers :
        pc[h] = "done"
            => /\ resp[h].id = req[h].id
               /\ src[h] \in { "cache", "inflight", "upstream", "failed", "invalid" }

\* reached: a store hit on an entry whose stored response has another id
C11_Witness ==
    \E h \in Handlers :
        /\ pc[h] = "done"
        /\ src[h] = "cache"
        /\ IsSome(store[Key(h)])
        /\ Unwrap(store[Key(h)]).response.id # req[h].id
        /\ Unwrap(store[Key(h)]).response.result = resp[h].result
        /\ resp[h].id = req[h].id

\* handler h appends event ev on backend b to what it tried
Appends(h, b, ev) == tried'[h] = Append(tried[h], Event(b, ev))

\* the step leaves every backend record but b's as it is
OnlyTouches(b) == \A c \in 1..2 : c # b => status'[c] = status[c]

\* a backend that send_request of h read as Down is not forwarded to in the
\* priority pass
SkippedStaysUncontacted(h) ==
    \A i \in DOMAIN tried[h], j \in DOMAIN tried[h] :
        (i < j /\ tried[h][i].ev = "skip" /\ tried[h][j].b = tried[h][i].b)
            => tried[h][j].ev \in { "lr_ok", "lr_err" }

\* C12: in the priority pass a backend read as Down is not contacted: the
\* step that reads it moves on to the next backend and changes no backend
\* record, no later step of the pass forwards to it, and the step in which
\* another backend serves the request adds one to that backend's
\* total_requests and changes no other record.
C12_DownBackendSkipped ==
    /\ [](\A h \in 1..MaxCallers : SkippedStaysUncontacted(h))
    /\ [][\A h \in 1..MaxCallers :
            /\ (pc[h] = "sr_read" /\ status[sr[h]].state = "Down"
                    /\ << pc[h], sr[h] >> # << pc'[h], sr'[h] >>)
                  => /\ pc'[h] # "sr_fwd"
                     /\ Appends(h, sr[h], "skip")
                     /\ status' = status
            /\ (pc[h] = "sr_fwd" /\ Appends(h, sr[h], "ok"))
                  => /\ status'[sr[h]].total_requests = status[sr[h]].total_requests + 1
                     /\ OnlyTouches(sr[h])]_vars

\* reached: P is Down, the request read it as Down and was served by S
C12_Witness ==
    \E h \in Handlers :
        /\ pc[h] = "done"
        /\ src[h] = "upstream"
        /\ tried[h] = << Event(1, "skip"), Event(2, "ok") >>
        /\ status[1].state = "Down"
        /\ status[2].state = "Healthy"

\* the events of the priority pass of h so far are on backends 1, 2, ... in
\* that order, one each, and only the last can be a success
InConfiguredOrder(h) ==
    \A i \in DOMAIN tried[h] :
        /\ tried[h][i].ev \in { "skip", "err", "ok" } => tried[h][i].b = i
        /\ tried[h][i].ev \in { "lr_ok", "lr_err" }
              => /\ i = NumBackends + 1
                 /\ tried[h][i].b = 1
        /\ tried[h][i].ev \in { "ok", "lr_ok" } => i = Len(tried[h])

\* where send_request of h stands, given what it has tried
PassPosition(h) ==
    /\ pc[h] \in { "sr_read", "sr_fwd" } => Len(tried[h]) = sr[h] - 1
    /\ pc[h] = "lr_fwd" => Len(tried[h]) = NumBackends
    /\ (pc[h] = "done" /\ src[h] = "upstream")
          => /\ tried[h] # << >>
             /\ tried[h][Len(tried[h])].ev \in { "ok", "lr_ok" }
             /\ \A i \in 1..(Len(tried[h]) - 1) : tried[h][i].ev \in { "skip", "err" }

\* C13: send_request goes through the backends in configured order and
\* returns the response of the first backend, not read as Down, that
\* succeeds: every backend before it was skipped as Down or contacted once
\* with one error recorded on it alone, the serving backend gets one success
\* recorded on it alone, and no backend after it is contacted.
C13_ConfiguredOrder ==
    /\ [](\A h \in 1..MaxCallers : InConfiguredOrder(h) /\ PassPosition(h))
    /\ [][\A h \in 1..MaxCallers :
            /\ (pc[h] = "sr_fwd" /\ Appends(h, sr[h], "err"))
                  => /\ ErrorOn(sr[h])
                     /\ status'[sr[h]].consecutive_errors
                            = status[sr[h]].consecutive_errors + 1
                     /\ OnlyTouches(sr[h])
            /\ (pc[h] = "sr_fwd" /\ Appends(h, sr[h], "ok"))
                  => /\ SuccessOn(sr[h])
                     /\ OnlyTouches(sr[h])
                     /\ pc'[h] = "done"
                     /\ src'[h] = "upstream"]_vars

\* reached: P failed once and is Degraded, S served the request
C13_Witness ==
    \E h \in Handlers :
        /\ pc[h] = "done"
        /\ src[h] = "upstream"
        /\ tried[h] = << Event(1, "err"), Event(2, "ok") >>
        /\ status[1].consecutive_errors = 1
        /\ status[1].state = "Degraded"
        /\ status[2].total_requests = 1
        /\ status[2].total_errors = 0

\* the step is the successful probe of backend b by the sweep
ProbeSucceeds(b) ==
    /\ sweep.pc = "probe"
    /\ sweep.i = b
    /\ sweep' # sweep
    /\ SuccessOn(b)

\* every send_request begins its priority pass at the first backend
StartsAtFirst(h) ==
    (pc[h] \in { "sr_read", "sr_fwd" } /\ tried[h] = << >>) => sr[h] = 1

\* the steps of a request that finds the first backend not Down: it is
\* forwarded to the first backend, and served by it when it succeeds
FirstBackendFirst(h) ==
    /\ (pc[h] = "sr_read" /\ sr[h] = 1 /\ status[1].state # "Down"
            /\ << pc[h], sr[h] >> # << pc'[h], sr'[h] >>)
          => (pc'[h] = "sr_fwd" /\ sr'[h] = 1)
    /\ (pc[h] = "sr_fwd" /\ sr[h] = 1 /\ Appends(h, 1, "ok"))
          => /\ pc'[h] = "done"
             /\ src'[h] = "upstream"
             /\ tried'[h] = << Event(1, "ok") >>

\* C14 (amended): the successful probe of a Down backend makes it Healthy
\* with consecutive_errors = 0; the demotion pass of that sweep leaves it
\* Healthy or, when its head is stale, Degraded, never Down; and a request
\* that then finds it not Down is forwarded to it before any other backend
\* and served by it when it succeeds.
C14_RecoveredKeepsPriority ==
    /\ [](\A h \in 1..MaxCallers : StartsAtFirst(h))
    /\ [][/\ \A b \in 1..2 :
               /\ ProbeSucceeds(b)
                     => /\ status'[b].state = "Healthy"
                        /\ status'[b].consecutive_errors = 0
                        /\ IsSome(status'[b].latest_block)
               /\ (sweep.pc = "demote" /\ sweep' # sweep /\ status[b].state # "Down")
                     => status'[b].state \in { "Healthy", "Degraded" }
           /\ \A h \in 1..MaxCallers : FirstBackendFirst(h)]_vars

\* C14 as claimed: when a sweep ends, every backend that was Down when its
\* probe of that sweep succeeded is Healthy.
C14_RecoveredIsHealthyAfterSweep ==
    [][(sweep.pc # "idle" /\ sweep'.pc = "idle")
          => \A b \in sweep.recovered : status'[b].state = "Healthy"]_vars

\* reached: P was Down, its probe succeeded, and the next request was served
\* by P while S is Healthy
C14_Witness ==
    \E h \in Handlers :
        /\ pc[h] = "done"
        /\ tried[h] = << Event(1, "ok") >>
        /\ \A g \in Handlers \ {h} : pc[g] = "idle"
        /\ sweep.pc = "idle"
        /\ sweeps = 1
        /\ status[1].total_errors = 3
        /\ status[1].consecutive_successes = 2
        /\ IsSome(status[1].latest_block)
        /\ status[1].state = "Healthy"
        /\ status[2].state = "Healthy"

\* the last resort of h comes after a priority pass in which no backend
\* succeeded, and there is one attempt of it at most
LastResortOnce(h) ==
    /\ pc[h] = "lr_fwd"
          => /\ Len(tried[h]) = NumBackends
             /\ \A i \in DOMAIN tried[h] : tried[h][i].ev \in { "skip", "err" }
    /\ Cardinality({ i \in DOMAIN tried[h] : tried[h][i].ev \in { "lr_ok", "lr_err" } }) <= 1
    /\ (pc[h] = "done" /\ src[h] = "failed")
          => /\ Len(tried[h]) = NumBackends + 1
             /\ tried[h][NumBackends + 1] = Event(1, "lr_err")
             /\ \A i \in 1..NumBackends : tried[h][i].ev \in { "skip", "err" }

\* C15: when no backend succeeded in the priority pass, send_request makes
\* one further attempt, on the first backend whatever its state; a success
\* is recorded on that backend, which becomes Healthy, and the response is
\* returned; a failure ends the request with AllUpstreamsFailed.
C15_LastResort ==
    /\ [](\A h \in 1..MaxCallers : LastResortOnce(h))
    /\ [][\A h \in 1..MaxCallers :
            pc[h] = "lr_fwd" /\ pc'[h] # "lr_fwd"
               => \/ /\ Appends(h, 1, "lr_ok")
                     /\ SuccessOn(1)
                     /\ status'[1].state = "Healthy"
                     /\ status'[1].consecutive_errors = 0
                     /\ OnlyTouches(1)
                     /\ pc'[h] = "done"
                     /\ src'[h] = "upstream"
                  \/ /\ Appends(h, 1, "lr_err")
                     /\ pc'[h] = "done"
                     /\ src'[h] = "failed"
                     /\ resp'[h] = internal_error(req[h].id)]_vars

\* reached: every backend was read as Down, the last resort on the first
\* backend succeeded and the backend is Healthy again
C15_Witness ==
    \E h \in Handlers :
        /\ pc[h] = "done"
        /\ src[h] = "upstream"
        /\ tried[h] = << Event(1, "skip"), Event(2, "skip"), Event(1, "lr_ok") >>
        /\ status[1].state = "Healthy"
        /\ status[2].state = "Down"

\* C16: every failed attempt of a send_request that ends in
\* AllUpstreamsFailed adds one to consecutive_errors of the backend it was
\* made on, the attempt of the last resort included.
C16_ErrorOnEveryTriedBackend ==
    [][\A h \in 1..MaxCallers :
          /\ (pc[h] = "sr_fwd" /\ Appends(h, sr[h], "err"))
                => status'[sr[h]].consecutive_errors
                      = status[sr[h]].consecutive_errors + 1
          /\ (pc[h] = "lr_fwd" /\ Appends(h, 1, "lr_err"))
                => status'[1].consecutive_errors
                      = status[1].consecutive_errors + 1]_vars

\* the step is a record_error of the user request of h on backend b
UserErrorOn(h, b) == pc[h] = "sr_fwd" /\ sr[h] = b /\ Appends(h, b, "err")

\* C17: a user request's record_error that moves a backend from a state
\* other than Down to Down emits the reactive signal, and one on a backend
\* that is Down already emits nothing.
C17_DownTransitionEmitsSignal ==
    [][\A h \in 1..MaxCallers, b \in 1..2 :
          UserErrorOn(h, b)
             => /\ (status[b].state # "Down" /\ status'[b].state = "Down")
                      => health_notify'
                /\ status[b].state = "Down"
                      => health_notify' = health_notify]_vars

\* C18: the checker waits for a period of its interval only after a first
\* sweep: whenever it waits for the next tick, a sweep has been run.
C18_SweepBeforeFirstWait ==
    (ticker = "waiting" /\ sweep.pc = "idle") => sweeps >= 1

\* the checker is waiting for its next tick, whose period has not elapsed
WaitingForTick == ticker = "waiting" /\ sweep.pc = "idle"

\* some step starts a sweep
StartsSweep == HealthNext /\ sweep.pc = "idle" /\ sweep'.pc = "probe"

\* C19: when the reactive signal holds a permit while the checker waits for
\* its next tick, the checker can start a sweep at once, without the period
\* of the interval having elapsed.
C19_SignalStartsSweep ==
    (health_notify /\ WaitingForTick /\ sweeps < MaxRecSweeps) => ENABLED StartsSweep

\* the request of h has a jsonrpc other than "2.0" or an empty method
Invalid(h) == req[h].jsonrpc # "2.0" \/ req[h].method = ""

\* C20: an invalid request is answered by error -32600 with its own id at
\* once: the handler calls neither the store, the registry nor
\* send_request, and the step leaves the store, the registry and every
\* backend record as they were.
C20_InvalidNeverReachesUpstream ==
    /\ [](\A h \in 1..MaxHandlers :
            (pc[h] # "idle" /\ Invalid(h))
               => /\ pc[h] = "done"
                  /\ resp[h] = Response(None, Some(-32600), req[h].id)
                  /\ ops[h] = {}
                  /\ tried[h] = << >>
                  /\ ~tx[h]
                  /\ rx[h] = 0
                  /\ \A k \in AllKeys : inflight[k] # h)
    /\ [][\A h \in 1..MaxHandlers :
            (pc[h] = "idle" /\ pc'[h] # "idle"
                /\ (req'[h].jsonrpc # "2.0" \/ req'[h].method = ""))
               => UNCHANGED << store, inflight, everInserted, status >>]_vars

\* reached: a request with an empty method and one with jsonrpc "1.0", both
\* answered by -32600 with their ids
C20_Witness ==
    \E g \in Handlers, h \in Handlers :
        /\ pc[g] = "done" /\ req[g].method = "" /\ req[g].jsonrpc = "2.0"
        /\ pc[h] = "done" /\ req[h].jsonrpc = "1.0"
        /\ resp[g].error = Some(-32600) /\ resp[g].id = req[g].id
        /\ resp[h].error = Some(-32600) /\ resp[h].id = req[h].id
        /\ req[g].id # req[h].id

(***************************************************************************)
(* Upstream JSON-RPC errors and upstream failure (rpc.rs 122-151).         *)
(***************************************************************************)
\* the step in which send_request of h returns Ok from backend b
ReturnsOkFrom(h, b) ==
    \/ pc[h] = "sr_fwd" /\ Appends(h, b, "ok")
    \/ pc[h] = "lr_fwd" /\ Appends(h, b, "lr_ok")

\* C21: a JSON-RPC error an upstream returns over HTTP 2xx is forwarded to
\* the client with the request's id, is never inserted into the store (no
\* stored response has an error), is never published to a waiter, and counts
\* as a success on the backend that returned it.
C21_UpstreamErrorForwarded ==
    /\ [](\A k \in AllKeys :
            IsSome(store[k]) => ~IsSome(Unwrap(store[k]).response.error))
    /\ [](\A h \in Handlers :
            IsSome(inbox[h]) => ~IsSome(Unwrap(inbox[h]).error))
    /\ [](\A h \in Handlers :
            (src[h] = "upstream" /\ IsSome(resp[h].error))
                => /\ pc[h] \in { "remove", "done" }
                   /\ resp[h] = Response(None, Some(-32000), req[h].id))
    /\ [][\A h \in 1..MaxHandlers, b \in 1..2 :
            (ReturnsOkFrom(h, b) /\ IsSome(resp'[h].error))
                => /\ SuccessOn(b)
                   /\ src'[h] = "upstream"
                   /\ UNCHANGED << store, everInserted, inbox >>]_vars
    /\ [][\A h \in 1..MaxHandlers :
            (src[h] = "upstream" /\ IsSome(resp[h].error) /\ pc'[h] # pc[h])
                => /\ UNCHANGED << store, everInserted, inbox >>
                   /\ pc'[h] = "done" => resp'[h] = resp[h]]_vars

\* reached: a cacheable request answered by the upstream's error while a
\* waiter is subscribed to its slot; the store has no entry for its key and
\* the backend has one request and no error
C21_Witness ==
    \E h \in Handlers, g \in Handlers :
        /\ pc[h] = "done" /\ src[h] = "upstream"
        /\ resp[h].error = Some(-32000) /\ resp[h].id = req[h].id
        /\ Cacheable(h)
        /\ ~IsSome(store[Key(h)])
        /\ pc[g] = "recv" /\ rx[g] = h /\ ~IsSome(inbox[g])
        /\ status[1].total_requests = 1 /\ status[1].total_errors = 0
        /\ status[1].state = "Healthy"

\* C22: when send_request returns AllUpstreamsFailed the handler returns
\* -32603 with the request's id, inserts nothing into the store, and has
\* removed the slot it registered by the time it returns.
C22_AllFailedIsInternalError ==
    /\ [](\A h \in Handlers :
            src[h] = "failed"
                => /\ pc[h] \in { "remove", "done" }
                   /\ resp[h] = Response(None, Some(-32603), req[h].id)
                   /\ pc[h] = "done"
                        => (~tx[h] /\ inflight[Key(h)] # h))
    /\ [][\A h \in 1..MaxHandlers :
            (pc'[h] # pc[h] /\ src'[h] = "failed")
                => UNCHANGED << store, everInserted, inbox >>]_vars

\* reached: a cacheable request, registered in flight, that every backend
\* failed: answered by -32603, nothing stored, its slot gone
C22_Witness ==
    \E h \in Handlers :
        /\ pc[h] = "done" /\ src[h] = "failed"
        /\ Cacheable(h)
        /\ "register_inflight" \in ops[h]
        /\ resp[h].error = Some(-32603) /\ resp[h].id = req[h].id
        /\ req[h].id = MaxId
        /\ ~IsSome(store[Key(h)])
        /\ inflight[Key(h)] = 0

(***************************************************************************)
(* The probe and the demotion of a sweep (manager.rs 147-188).             *)
(***************************************************************************)
\* the step in which the probe of backend i of the sweep is recorded
ProbeRecorded(i) == sweep.pc = "probe" /\ sweep.i = i /\ sweep' # sweep

\* the step in which the demotion pass visits backend i
DemotionVisits(i) == sweep.pc = "demote" /\ sweep.i = i /\ sweep' # sweep

\* C29: a successful probe stores the probed head in latest_block and
\* records a success of latency 0, so the backend is Healthy with
\* consecutive_errors = 0 whatever it was; a failed probe records an error
\* and leaves latest_block as it is.
C29_ProbeOutcomeRecorded ==
    [][\A i \in 1..2 :
          ProbeRecorded(i)
             => /\ OnlyTouches(i)
                /\ \/ /\ SuccessOn(i)
                      /\ IsSome(status'[i].latest_block)
                      /\ Unwrap(status'[i].latest_block) \in Heads
                      /\ IsSome(sweep'.best) =>
                             Unwrap(status'[i].latest_block) <= Unwrap(sweep'.best)
                      /\ status'[i].state = "Healthy"
                      /\ status'[i].consecutive_errors = 0
                      /\ status'[i].consecutive_successes =
                             status[i].consecutive_successes + 1
                      /\ status'[i].avg_latency_ms =
                             (status[i].avg_latency_ms * 8) \div 10
                   \/ /\ ErrorOn(i)
                      /\ status'[i].latest_block = status[i].latest_block
                      /\ status'[i].consecutive_errors =
                             status[i].consecutive_errors + 1
                      /\ status'[i].consecutive_successes = 0
                      /\ status'[i].state \in { "Degraded", "Down" }
                      /\ status'[i].avg_latency_ms = status[i].avg_latency_ms]_vars

\* reached: the probe of the Down first backend has succeeded with the
\* highest head (it is Healthy with no consecutive error) and the probe of
\* the second, which has served a request, has failed
C29_Witness ==
    /\ sweep.recovered = {1}
    /\ status[1].state = "Healthy"
    /\ status[1].consecutive_errors = 0
    /\ status[1].total_errors = DownThreshold
    /\ status[1].latest_block = Some(MaxHead)
    /\ sweep.pc = "demote" /\ sweep.i = 1
    /\ status[2].state = "Degraded"
    /\ status[2].consecutive_errors = 1
    /\ status[2].total_requests = 2
    /\ ~IsSome(status[2].latest_block)

\* C30: the demotion of a sweep changes nothing but the state field, and
\* that only from Healthy to Degraded: counters, latest_block and latency
\* of every backend stay, and a Degraded or Down backend is left as it is.
C30_DemotionOnlyState ==
    [][\A i \in 1..2 :
          DemotionVisits(i)
             => /\ \A b \in 1..2 :
                     /\ [status'[b] EXCEPT !.state = status[b].state] = status[b]
                     /\ status'[b].state # status[b].state
                           => /\ b = i
                              /\ status[b].state = "Healthy"
                              /\ status'[b].state = "Degraded"
                /\ status[i].state \in { "Degraded", "Down" }
                      => status'[i] = status[i]]_vars

\* reached: the demotion pass has visited the first backend, which is stale
\* and has served requests, and has demoted it
C30_Witness ==
    /\ sweep.pc = "demote" /\ sweep.i = 2
    /\ IsSome(status[1].latest_block) /\ IsSome(sweep.best)
    /\ Unwrap(status[1].latest_block) + StaleBlocks < Unwrap(sweep.best)
    /\ status[1].state = "Degraded"
    /\ status[1].consecutive_errors = 0
    /\ status[1].consecutive_successes = 2
    /\ status[1].total_requests = 2

(***************************************************************************)
(* The cache policy and the fingerprint (policy.rs 37-65, request.rs       *)
(* 13-38).                                                                 *)
(***************************************************************************)
\* the requests the claim gives the immutable TTL to
ImmutableRequest(r) ==
    \/ r.method \in IMMUTABLE_METHODS
    \/ r.method = "eth_getBlockByNumber" /\ r.params \in { HexBlock, BareHexBlock }
    \/ r.method = "eth_getLogs" /\ r.params \in { HashFilter, NullHashFilter }

\* C26: ttl_for_request returns 3600 s for every method of the immutable
\* list, for eth_getBlockByNumber whose first parameter is a string that
\* starts with "0x" and for eth_getLogs whose first parameter is an object
\* with a blockHash key; for every other request it returns the default TTL
\* the caller gave.
C26_TtlForRequest ==
    call.op = "ttl_for_request"
        => call.result = IF ImmutableRequest(call.request)
                         THEN 3600 * 1000
                         ELSE call.default_ttl

\* reached: eth_getBlockByNumber on "latest" given the default TTL it was
\* called with
C26_Witness ==
    /\ call.op = "ttl_for_request"
    /\ call.request.method = "eth_getBlockByNumber"
    /\ call.request.params \in TagBlocks
    /\ call.default_ttl = 2 * DefaultTtlMs
    /\ call.result = 2 * DefaultTtlMs

\* C27: the fingerprint depends on method and params only: requests with
\* the same method and params have the same fingerprint whatever their ids,
\* and requests with the same method and different params have different
\* fingerprints.
C27_FingerprintOfMethodAndParams ==
    (call.op = "cache_key" /\ call.request.method = call.other.method)
        => (call.result = call.other_result
                <=> call.request.params = call.other.params)

\* reached: two requests with the same method and params and different ids,
\* with one fingerprint
C27_Witness ==
    /\ call.op = "cache_key"
    /\ call.request.method = call.other.method
    /\ call.request.params = call.other.params
    /\ call.request.params = HexBlock
    /\ call.request.id # call.other.id
    /\ call.result = call.other_result

(***************************************************************************)
(* The store's expiry (store.rs 18-64).                                    *)
(***************************************************************************)
\* the TTL given to the value the store holds for k has not elapsed since
\* the insert that put it there
WithinTtl(k) ==
    /\ IsSome(store[k])
    /\ now < Unwrap(store[k]).inserted_at + Unwrap(store[k]).ttl

C23_BatchAnsweredInOrder ==
    \A h \in Handlers :
        http[h].batch
           => /\ Len(http[h].responses) <= Len(http[h].requests)
              /\ \A i \in DOMAIN http[h].responses :
                    http[h].responses[i].id = http[h].requests[i].id
              /\ http[h].st = "dispatch"
                    => Len(http[h].responses) < Len(http[h].requests)
              /\ http[h].st = "returned"
                    => /\ Len(http[h].responses) = Len(http[h].requests)
                       /\ http[h].status = 200

\* reached: a returned batch of two requests with different ids, the first
\* failed by every upstream attempt and the second served from the store
C23_Witness ==
    \E h \in Handlers :
        /\ http[h].batch /\ http[h].st = "returned"
        /\ Len(http[h].requests) = 2
        /\ http[h].requests[1].id = 2 /\ http[h].requests[2].id = 1
        /\ http[h].via = << "failed", "cache" >>
        /\ http[h].responses[1].error = Some(-32603)
        /\ http[h].responses[1].id = 2
        /\ IsSome(http[h].responses[2].result)
        /\ http[h].responses[2].id = 1

\* the step in which the POST of connection h arrives and passes or fails
\* the gate
Arrives(h) == http[h].st = "none" /\ http'[h].st # "none"

\* C25: with a token configured a POST is served only on the path that is
\* the token; on any other path, POST / among them, it is answered by HTTP
\* 401 with error -32000 and a null id, and causes no upstream call and no
\* change of the store, the in-flight registry or a backend record.  With
\* no token configured POST / is served.
C25_TokenGate ==
    /\ [][\A h \in 1..MaxHandlers :
            Arrives(h)
               => IF token # None /\ http'[h].path # token[1]
                  THEN /\ http'[h].st = "returned"
                       /\ http'[h].status = 401
                       /\ http'[h].responses = << Response(None, Some(-32000), NullId) >>
                       /\ UNCHANGED << hvars, cvars, uvars >>
                  ELSE /\ http'[h].status # 401
                       /\ http'[h].via # << "unauthorized" >>]_vars
    /\ [](\A h \in Handlers :
            http[h].status = 401
               => /\ pc[h] = "idle" /\ ops[h] = {} /\ tried[h] = << >>
                  /\ http[h].st = "returned")
    /\ [](\A h \in Handlers :
            (token # None /\ pc[h] # "idle") => http[h].path = token[1])
    /\ [](\A h \in Handlers :
            (token = None /\ http[h].st # "none") => http[h].status # 401)

\* reached: with the token configured, one connection's request on the
\* token's path has been served from upstream and stored, and the other's,
\* a valid request on another path, has been answered by 401
C25_Witness ==
    \E g \in Handlers, h \in Handlers :
        /\ token = Some("secret")
        /\ http[g].path = "secret" /\ http[g].st = "returned" /\ http[g].status = 200
        /\ http[g].via = << "upstream" >>
        /\ \E k \in AllKeys : IsSome(store[k])
        /\ http[h].path = "other" /\ http[h].status = 401
        /\ http[h].responses = << ErrorResponse(NullId, -32000) >>
        /\ pc[h] = "idle"
        /\ status[1].total_requests = 1

(***************************************************************************)
(* GET /health and GET /readiness (status.rs 11-40, manager.rs 110-136).   *)
(***************************************************************************)
\* the step in which the endpoint's request is answered
Answered == endpoint.pc # "done" /\ endpoint'.pc = "done"

\* a backend that is Healthy and has a latest_block, in the current state
SomeHealthyWithBlock ==
    \E b \in 1..2 : status[b].state = "Healthy" /\ status[b].latest_block # None

\* a backend that was Healthy and had a latest_block when the request read it
SomeSeenHealthyWithBlock(e) ==
    \E j \in DOMAIN e.seen :
        e.seen[j].state = "Healthy" /\ e.seen[j].latest_block # None

\* C24: GET /health answers 200 if and only if, at that moment, some
\* backend is Healthy and has a latest_block, and 503 otherwise; GET
\* /readiness answers by the same condition; in the initial state the
\* answer is 503.
C24_AnswerMatchesState ==
    [][Answered
          => /\ endpoint'.code = IF SomeHealthyWithBlock THEN 200 ELSE 503
             /\ status = [b \in 1..2 |-> NewBackendStatus] => endpoint'.code = 503]_vars

\* C24 (amended): GET /health answers 200 if and only if some backend was
\* Healthy and had a latest_block at the moment the request read it (the
\* records are read one at a time, in configured order, up to the first
\* such backend), and 503 otherwise; GET /readiness that passes the bearer
\* check answers by the same condition on the records it read, all of them,
\* and one that fails the check is answered by 401; in the initial state
\* the answer of /health is 503.
C24_AnswerMatchesReads ==
    /\ [][Answered
            => IF /\ endpoint'.kind = "readiness"
                  /\ token # None
                  /\ endpoint'.bearer # token
               THEN endpoint'.code = 401 /\ endpoint'.seen = << >>
               ELSE /\ endpoint'.code =
                          IF SomeSeenHealthyWithBlock(endpoint') THEN 200 ELSE 503
                    /\ endpoint'.code = 503 => Len(endpoint'.seen) = 2
                    /\ (endpoint'.kind = "health"
                           /\ status = [b \in 1..2 |-> NewBackendStatus])
                          => endpoint'.code = 503]_vars
    /\ [][(endpoint.pc = "read" /\ endpoint' # endpoint)
            => /\ endpoint.i = Len(endpoint.seen) + 1
               /\ endpoint'.seen =
                     Append(endpoint.seen,
                            [state |-> status[endpoint.i].state,
                             latest_block |-> status[endpoint.i].latest_block])]_vars

\* reached: with a token configured, GET /readiness with the token's bearer
\* answered 200 for a second backend read Healthy with a block, the first
\* having been read Healthy without one
C24_Witness ==
    /\ token = Some("secret")
    /\ endpoint.kind = "readiness" /\ endpoint.pc = "done"
    /\ endpoint.bearer = token
    /\ endpoint.code = 200
    /\ endpoint.seen[1].state = "Healthy" /\ endpoint.seen[1].latest_block = None
    /\ endpoint.seen[2].state = "Healthy" /\ endpoint.seen[2].latest_block # None

(***************************************************************************)
(* The counters of a backend record (backend.rs 42-66) under concurrent    *)
(* user requests and sweeps.                                               *)
(***************************************************************************)
\* the step in which some send_request completes a recorded forward to b
\* with one of the outcomes evs
UserRecord(b, evs) == \E h \in Handlers : \E ev \in evs : Appends(h, b, ev)

\* the step completes a call of record_success or record_error on b
RecordCall(b) == UserRecord(b, {"ok", "err", "lr_ok"}) \/ ProbeRecorded(b)

\* the step completes a call of record_error on b: a failed forward of the
\* priority pass, or a probe that leaves b other than Healthy (record_success
\* always leaves Healthy, record_error never)
RecordErrorCall(b) ==
    \/ UserRecord(b, {"err"})
    \/ ProbeRecorded(b) /\ status'[b].state # "Healthy"

\* C40: consecutive_errors and consecutive_successes of a backend are never
\* both positive; a recorded success leaves consecutive_errors at 0, a
\* recorded error leaves consecutive_successes at 0, and a step that is not
\* the completion of record_success or record_error (the demotion pass
\* included) changes neither counter.
C40_StreaksExclusive ==
    /\ [](\A b \in Backends :
            ~(status[b].consecutive_errors > 0 /\ status[b].consecutive_successes > 0))
    /\ [][\A b \in Backends :
            /\ RecordCall(b) /\ ~RecordErrorCall(b)
                  => /\ status'[b].consecutive_errors = 0
                     /\ status'[b].consecutive_successes
                            = status[b].consecutive_successes + 1
            /\ RecordErrorCall(b)
                  => /\ status'[b].consecutive_successes = 0
                     /\ status'[b].consecutive_errors
                            = status[b].consecutive_errors + 1
            /\ ~RecordCall(b)
                  => /\ status'[b].consecutive_errors = status[b].consecutive_errors
                     /\ status'[b].consecutive_successes
                            = status[b].consecutive_successes]_vars

\* a backend with a streak of two successes gets an error recorded by a user
\* request after a sweep has run: the streak is gone
C40_Witness ==
    \E b \in Backends :
        /\ status[b].consecutive_errors = 1
        /\ status[b].consecutive_successes = 0
        /\ status[b].total_requests - status[b].total_errors >= 2
        /\ sweeps > 0
        /\ \E h \in Handlers : \E i \in 1..Len(tried[h]) :
              i = Len(tried[h]) /\ tried[h][i] = Event(b, "err")

\* the calls of record_success / record_error that the send_requests of
\* handlers 1..n have completed on b with an outcome in evs
RECURSIVE UserCalls(_, _, _)
UserCalls(n, b, evs) ==
    IF n = 0 THEN 0
    ELSE UserCalls(n - 1, b, evs)
         + Cardinality({ i \in 1..Len(tried[n]) :
                            tried[n][i].b = b /\ tried[n][i].ev \in evs })

\* the probes of b that the sweeps have completed
Probes(b) ==
    IF sweep.pc = "probe" THEN sweeps - 1 + (IF b < sweep.i THEN 1 ELSE 0)
    ELSE sweeps

\* C31: under any interleaving of user requests and sweeps, total_requests
\* of a backend is the number of record_success and record_error calls
\* completed on it (recorded forwards of user requests plus probes) and
\* total_errors the number of record_error calls; every step adds to each
\* counter exactly the calls it completes.
C31_NoLostUpdate ==
    /\ [](\A b \in Backends :
            /\ status[b].total_requests
                  = UserCalls(Len(tried), b, {"ok", "err", "lr_ok"}) + Probes(b)
            /\ status[b].total_errors >= UserCalls(Len(tried), b, {"err"})
            /\ status[b].total_errors
                  <= UserCalls(Len(tried), b, {"err"}) + Probes(b))
    /\ [][\A b \in Backends :
            /\ status'[b].total_requests
                  = status[b].total_requests + (IF RecordCall(b) THEN 1 ELSE 0)
            /\ status'[b].total_errors
                  = status[b].total_errors + (IF RecordErrorCall(b) THEN 1 ELSE 0)]_vars

\* both callers and two sweeps have recorded on the first backend while the
\* others were in flight: two user errors, a failed and a successful probe
C31_Witness ==
    /\ UserCalls(Len(tried), 1, {"err"}) = 2
    /\ Probes(1) = 2
    /\ status[1].total_requests = 4
    /\ status[1].total_errors = 3

(***************************************************************************)
(* The in-flight registry (rpc.rs 112-151, store.rs 74-84).                *)
(***************************************************************************)
\* handler h is between its register_inflight and its return
Registered(h) ==
    /\ "register_inflight" \in ops[h]
    /\ pc[h] \in { "sr_read", "sr_fwd", "lr_fwd", "insert", "remove" }

\* C32: whenever no handler is between register_inflight and its return,
\* the in-flight registry holds no entry.
C32_RegistryEmptyWhenIdle ==
    (\A h \in Handlers : ~Registered(h)) => \A k \in AllKeys : inflight[k] = 0

(***************************************************************************)
(* The latency average (backend.rs 48-52), in thousandths of a ms.         *)
(***************************************************************************)
\* the latencies the step can have recorded on b: 0 for a probe
\* (manager.rs 154), the measured latency for a user request
SamplesOf(b) == IF ProbeRecorded(b) THEN { 0 } ELSE LatencySamples

\* the successes recorded on b so far
Successes(b) == status[b].total_requests - status[b].total_errors

\* C33: the first success ever recorded on a backend sets avg_latency_ms to
\* its sample, every later success sets it to 0.8 * avg + 0.2 * sample,
\* probes' samples of 0 included.
C33_LatencyAverage ==
    [][\A b \in Backends :
          RecordCall(b) /\ ~RecordErrorCall(b)
              => \E sample \in SamplesOf(b) :
                    status'[b].avg_latency_ms
                        = IF Successes(b) = 0 THEN sample * 1000
                          ELSE (status[b].avg_latency_ms * 8 + sample * 1000 * 2)
                                   \div 10]_vars

(***************************************************************************)
(* Responses without an error field (rpc.rs 122-143).                      *)
(***************************************************************************)
\* send_request of h returns Ok in this step
ReturnsOk(h) ==
    /\ pc[h] \in { "sr_fwd", "lr_fwd" }
    /\ src'[h] = "upstream"

\* C34: for a cacheable request, a 2xx upstream response without an error
\* field goes to the insert whether or not it carries a result; the insert
\* puts it into the store under the request's fingerprint and sends it to
\* every waiter subscribed to the handler's channel; and a lookup of the
\* fingerprint while that entry is live returns the stored response under
\* the id of the looking request.
C34_ErrorFreeResponseCached ==
    [][\A h \in Handlers :
          /\ (ReturnsOk(h) /\ Cacheable(h) /\ ~IsSome(resp'[h].error))
                => pc'[h] = "insert"
          /\ (pc[h] = "insert" /\ pc'[h] = "remove")
                => /\ IsSome(store'[Key(h)])
                   /\ Unwrap(store'[Key(h)]).response = resp[h]
                   /\ Live(Unwrap(store'[Key(h)]), now)
                   /\ \A g \in Handlers :
                         (pc[g] = "recv" /\ rx[g] = h) => inbox'[g] = Some(resp[h])
          /\ ( /\ pc[h] = "get" /\ pc'[h] \notin { "get", "cancelled" }
               /\ IsSome(store[Key(h)]) /\ Live(Unwrap(store[Key(h)]), now) )
                => /\ pc'[h] = "done"
                   /\ src'[h] = "cache"
                   /\ resp'[h] = [Unwrap(store[Key(h)]).response
                                     EXCEPT !.id = req[h].id]]_vars

\* reached: an upstream answered with neither result nor error, the owner
\* returned it, and a later handler of the same fingerprint got it from the
\* store
C34_Witness ==
    \E g \in Handlers, h \in Handlers :
        /\ g # h
        /\ Key(g) = Key(h)
        /\ pc[g] = "done" /\ src[g] = "upstream"
        /\ ~IsSome(resp[g].result) /\ ~IsSome(resp[g].error)
        /\ pc[h] = "done" /\ src[h] = "cache" /\ ops[h] = { "get" }
        /\ ~IsSome(resp[h].result) /\ ~IsSome(resp[h].error)
        /\ IsSome(store[Key(h)])
        /\ Unwrap(store[Key(h)]).response = resp[g]

(***************************************************************************)
(* latest_block and GET /health (manager.rs 34-78, 128-168).               *)
(***************************************************************************)
\* C35: latest_block of a backend changes only in the step that records a
\* successful probe of it; no step of send_request changes it.  So while no
\* probe has succeeded no backend has a latest_block, and GET /health
\* answers 503 whatever the user requests have recorded.
C35_BlockOnlyFromProbe ==
    /\ [][\A b \in Backends :
            /\ status'[b].latest_block # status[b].latest_block
                  => /\ ProbeRecorded(b)
                     /\ ~RecordErrorCall(b)
                     /\ IsSome(status'[b].latest_block)
            /\ (\E h \in Handlers : tried'[h] # tried[h])
                  => status'[b].latest_block = status[b].latest_block]_vars
    /\ []( ( /\ endpoint.kind = "health" /\ endpoint.pc = "done"
             /\ \A b \in Backends : ~IsSome(status[b].latest_block) )
              => endpoint.code = 503 )

\* reached: a user request was served by the first backend, which is Healthy
\* with a recorded success, no sweep has run, and GET /health that read it
\* in that state answered 503
C35_Witness ==
    /\ sweeps = 0
    /\ \E h \in Handlers :
          pc[h] = "done" /\ src[h] = "upstream" /\ tried[h] = << Event(1, "ok") >>
    /\ status[1].state = "Healthy" /\ status[1].consecutive_successes = 1
    /\ endpoint.kind = "health" /\ endpoint.pc = "done" /\ endpoint.code = 503
    /\ endpoint.seen[1].state = "Healthy"
    /\ Len(endpoint.seen) = NumBackends

(***************************************************************************)
(* The attempts of one send_request (manager.rs 34-78).                    *)
(***************************************************************************)
\* the upstream attempts send_request of h has completed with an outcome in evs
Attempts(h, evs) ==
    { i \in 1..Len(tried[h]) : tried[h][i].ev \in evs }

\* C36: one send_request makes at most N + 1 upstream attempts over N
\* backends: at most one per backend in the priority pass and at most one
\* last resort, on the first backend; and a send_request under way
\* eventually returns, a response or AllUpstreamsFailed.
C36_BoundedAttempts ==
    /\ [](\A h \in Handlers :
            /\ Cardinality(Attempts(h, {"ok", "err", "lr_ok", "lr_err"}))
                  <= NumBackends + 1
            /\ \A b \in Backends :
                  Cardinality({ i \in Attempts(h, {"ok", "err"}) : tried[h][i].b = b })
                      <= 1
            /\ Cardinality(Attempts(h, {"lr_ok", "lr_err"})) <= 1
            /\ \A i \in Attempts(h, {"lr_ok", "lr_err"}) :
                  tried[h][i].b = 1 /\ i = Len(tried[h]))
    /\ \A h \in 1..MaxCallers :
          (pc[h] \in { "sr_read", "sr_fwd", "lr_fwd" })
              ~> (pc[h] = "done" /\ src[h] \in { "upstream", "failed" })

\* reached: a send_request that made N + 1 attempts and returned
\* AllUpstreamsFailed
C36_Witness ==
    \E h \in Handlers :
        /\ pc[h] = "done" /\ src[h] = "failed"
        /\ tried[h] = << Event(1, "err"), Event(2, "err"), Event(1, "lr_err") >>

(***************************************************************************)
(* Leaving Down through user traffic (manager.rs 34-78).                   *)
(***************************************************************************)
\* backend b leaves Down in this step
LeavesDown(b) == status[b].state = "Down" /\ status'[b].state # "Down"

\* C37 as stated: without a sweep, a backend leaves Down only if it is the
\* first configured one, through a successful last-resort attempt.
C37_DownUntilSweep ==
    [][\A b \in Backends :
          LeavesDown(b) => b = 1 /\ \E h \in Handlers : Appends(h, 1, "lr_ok")]_vars

\* C37 (amended): a send_request that reads a backend as Down does not
\* forward to it in the priority pass, and never again if it is not the
\* first; a forward of the priority pass is entered only on a backend read
\* as not Down.  Without a sweep a backend leaves Down only by the success
\* of such a forward, still in flight when the backend went Down, or, the
\* first backend, by the success of a last-resort attempt.
C37_DownLeftOnlyByInFlight ==
    /\ [](\A h \in Handlers : \A i \in DOMAIN tried[h], j \in DOMAIN tried[h] :
            (i < j /\ tried[h][i].ev = "skip" /\ tried[h][j].b = tried[h][i].b)
                => tried[h][i].b = 1 /\ tried[h][j].ev \in { "lr_ok", "lr_err" })
    /\ [][\A h \in Handlers :
            (pc[h] = "sr_read" /\ pc'[h] = "sr_fwd") => status[sr[h]].state # "Down"]_vars
    /\ [][\A b \in Backends :
            LeavesDown(b)
                => \E h \in Handlers :
                      \/ pc[h] = "sr_fwd" /\ sr[h] = b /\ Appends(h, b, "ok")
                      \/ pc[h] = "lr_fwd" /\ b = 1 /\ Appends(h, 1, "lr_ok")]_vars

\* reached: the second backend went Down by another request's error while a
\* request that had read it as Degraded was in flight, and that request's
\* success made it Healthy
C37_Witness ==
    /\ status[2].state = "Healthy"
    /\ status[2].total_errors = DownThreshold
    /\ status[2].consecutive_successes = 1
    /\ \E g \in Handlers, h \in Handlers :
          /\ g # h
          /\ \E i \in DOMAIN tried[g] : tried[g][i] = Event(2, "err")
          /\ tried[h] # << >> /\ tried[h][Len(tried[h])] = Event(2, "ok")

(***************************************************************************)
(* Recovery by the periodic sweeps alone (health.rs 9-68,                  *)
(* manager.rs 140-168).                                                    *)
(***************************************************************************)
\* backend b is Healthy and has a latest_block
HealthyWithBlock(b) ==
    status[b].state = "Healthy" /\ IsSome(status[b].latest_block)

\* C39: without user traffic and with fair ticks of the supervisor, a Down
\* backend with n errors recorded, while a further sweep can still start,
\* leads to the backend being Healthy with a latest_block unless a probe of
\* it fails first (total_errors, which only a failed probe can raise here,
\* exceeds n): a backend that answers its probes from then on becomes
\* Healthy with a latest_block.
C39_DownRecoversBySweeps ==
    \A b \in 1..2 : \A n \in 0..(DownThreshold + MaxUpSweeps) :
        (status[b].state = "Down" /\ status[b].total_errors = n /\ sweeps < MaxUpSweeps)
            ~> (HealthyWithBlock(b) \/ status[b].total_errors > n)

\* reached: no user request was ever made, the first backend, Down by three
\* errors, failed the probe of the first sweep and answered that of the
\* second: it is Healthy with a head
C39_Witness ==
    /\ \A h \in Handlers : pc[h] = "idle"
    /\ sweeps = 2
    /\ status[1].total_errors = DownThreshold + 1
    /\ status[1].consecutive_successes = 1
    /\ HealthyWithBlock(1)

(***************************************************************************)
(* Cache integrity (rpc.rs 85-152, store.rs 53-84).                        *)
(***************************************************************************)
\* the response carries nothing, or a result an upstream gives for request r
ResultFor(response, r) ==
    IsSome(response.result) => Unwrap(response.result) \in UpstreamResults(r)

\* C38: a non-error response returned by handle_single_request for a
\* request of fingerprint k carries a result an upstream gave for a request
\* of fingerprint k, whether it came from the upstream, the store or the
\* broadcast; a store entry under k, a value waiting in a receiver and the
\* channel a handler is subscribed to all belong to the handler's own
\* fingerprint, under every interleaving (cancellations included).
C38_CacheIntegrity ==
    /\ \A h \in Handlers :
          /\ ( /\ pc[h] = "done" /\ src[h] \in { "upstream", "cache", "inflight" }
               /\ ~IsSome(resp[h].error) )
                => ResultFor(resp[h], req[h])
          /\ IsSome(inbox[h]) => ResultFor(Unwrap(inbox[h]), req[h])
          /\ rx[h] # 0 => Key(rx[h]) = Key(h)
          /\ (Cacheable(h) /\ pc[h] # "idle" /\ IsSome(store[Key(h)]))
                => ResultFor(Unwrap(store[Key(h)]).response, req[h])
    /\ \A k \in AllKeys :
          IsSome(store[k])
              => \E b \in Bodies :
                    cache_key(b) = k /\ ResultFor(Unwrap(store[k]).response, b)

\* reached: two handlers of different fingerprints went through the
\* registry and the store; each returned its own upstream's result and the
\* store holds each result under its own fingerprint
C38_Witness ==
    \E g \in Handlers, h \in Handlers :
        /\ Key(g) # Key(h)
        /\ pc[g] = "done" /\ src[g] = "upstream" /\ IsSome(resp[g].result)
        /\ pc[h] = "done" /\ src[h] = "upstream" /\ IsSome(resp[h].result)
        /\ Cacheable(g) /\ Cacheable(h)
        /\ IsSome(store[Key(g)]) /\ IsSome(store[Key(h)])
        /\ Unwrap(store[Key(g)]).response.result = resp[g].result
        /\ Unwrap(store[Key(h)]).response.result = resp[h].result
        /\ resp[g].result # resp[h].result

====
